---- MODULE Spec2Model ----
(***************************************************************************)
(* Model of the scraping bridge: the native host (src/native-host/index.js) *)
(* with its framed stdin read loop, pendingRequests table, expiry timers    *)
(* and HTTP handlers, and the extension's payload size governor             *)
(* (src/background.js, sanitizeNativeMessage and helpers).                  *)
(***************************************************************************)
EXTENDS Integers, Sequences, FiniteSets, TLC

\* ------------------------------------------------------------------ bounds
MaxRequests == 2
MaxStdin == 1

\* ------------------------------------------------------- program constants
MAX_MESSAGE_BYTES == 1048576
DISCARD_CHUNK_BYTES == 65536
DEFAULT_TIMEOUT == 60000
HEADER_BYTES == 4

Requests == 1..MaxRequests
TaskIds == 1..MaxRequests

\* A string is a sequence of runs [c |-> character, n |-> repetitions], with
\* n >= 1 and adjacent runs of different characters, so that equal strings
\* have equal representations and strings of 900 KiB stay small.
Run(c, n) == [c |-> c, n |-> n]

\* JS undefined for a string-valued field
Undefined == <<Run("#undefined", 0)>>

\* JS truthiness of a string-or-undefined value
Truthy(v) == v # Undefined /\ v # <<>>

VARIABLES
  AUTH_TOKEN,        \* configured bearer token, "" when none
  alive,             \* the host process is running
  serverOpen,        \* the HTTP listener accepts requests
  taskIdOf,          \* request -> taskId generated for it (0: none)
  timeoutOf,         \* request -> delay its expiry timer was armed with
  urlOf,             \* request -> url of its body
  req,               \* request -> what the client sent
  pendingRequests,   \* taskId -> owning request (0: no entry)
  timers,            \* requests whose expiry timer is armed
  resolveCalls,      \* request -> number of calls of its resolve handle
  removeCount,       \* request -> number of times its entry was removed
  response,          \* request -> HTTP response (status 0: none yet)
  stdout,            \* SCRAPE frames written to stdout, in order
  stdin,             \* frames written by the peer, not yet fully consumed
  rpos,              \* bytes already consumed of the first frame of stdin
  pcRead,            \* position of the read loop
  messageLength,     \* declared length of the frame being read
  remaining,         \* bytes left to discard of an oversized frame
  stdinEnded,        \* stdin reached end-of-file
  decomp,            \* gunzip jobs in flight
  desync,            \* a header was read off a frame boundary
  lastFrame,         \* what the read loop did with the last completed frame
  activeReads,       \* readMessage calls whose callbacks still read stdin
  gpc,               \* extension side: position of one sendToNativeHost call
  gin,               \* the command handed to sanitizeNativeMessage
  ggz,               \* what compressToBase64 did for it
  gout,              \* the command sanitizeNativeMessage returned
  gres,              \* what the host resolved the request with
  tmax,              \* byte budget of a truncateStringByBytes call
  inflight,          \* bytes of the frames of stdin that have not arrived yet
  received,          \* the messages readMessage resolved with, in order
  written,           \* the commands sendMessage was called with, in order
  enabled,           \* extension: config.enabled
  nativePort,        \* extension: the port to the native host (0: null)
  ports,             \* extension: number of ports connectNative has opened
  openPorts,         \* extension: the ports that are open
  connectionState,   \* extension: stats.connectionState
  reconnectTimers,   \* extension: pending setTimeout(connectToNativeHost)
  isProcessing,      \* extension: a rendering task is running
  task,              \* SCRAPE command -> its handleScrapeCommand invocation
  posted,            \* the messages handed to nativePort.postMessage, in order
  worker             \* WebSocket extension: the state of its service worker

hostVars == <<AUTH_TOKEN, alive, serverOpen, taskIdOf, timeoutOf, urlOf, req,
              pendingRequests, timers, resolveCalls, removeCount, response,
              stdout, stdin, rpos, pcRead, messageLength, remaining,
              stdinEnded, decomp, desync, lastFrame, activeReads>>

govVars == <<gpc, gin, ggz, gout, gres, tmax>>

wireVars == <<inflight, received, written>>

peerVars == <<enabled, nativePort, ports, openPorts, connectionState, reconnectTimers,
              isProcessing, task, posted>>

vars == <<hostVars, govVars, wireVars, peerVars, worker>>

\* ------------------------------------------------------------ UTF-8 / gzip
\* Characters are Unicode scalar values (the html comes out of
\* chrome.scripting.executeScript, which delivers well-formed strings).
\* "<!-- truncated -->" stands for that ASCII literal as one unit.
Chars == {"a", "q", "EUR"}

\* UTF-8 bytes of one character
Utf8Len(c) ==
  CASE c = "EUR"  -> 3
    [] c = "FFFD" -> 3
    [] c = "<!-- truncated -->" -> 18
    [] OTHER -> 1

\* UTF-16 code units of one character
Utf16Len(c) == IF c = "<!-- truncated -->" THEN 18 ELSE 1

\* bytes of one character inside a JSON string literal
JsonEscLen(c) ==
  CASE c = "q"  -> 2
    [] c = "nl" -> 2
    [] OTHER -> Utf8Len(c)

\* string concatenation
Concat(s, t) ==
  IF s = <<>> THEN t
  ELSE IF t = <<>> THEN s
  ELSE IF s[Len(s)].c = t[1].c
  THEN SubSeq(s, 1, Len(s) - 1) \o <<Run(t[1].c, s[Len(s)].n + t[1].n)>> \o Tail(t)
  ELSE s \o t

\* A byte string: the bytes of whole characters, then the first pk bytes of
\* character pc (pk = 0: none).
Bytes(full, pc, pk) == [full |-> full, pc |-> pc, pk |-> pk]

\* TextEncoder.encode / Buffer.from(str, 'utf8')
encode(s) == Bytes(s, "", 0)

\* sum of W over the characters of s
SumRuns(s, W(_)) ==
  LET RECURSIVE upto(_)
      upto(i) == IF i = 0 THEN 0 ELSE s[i].n * W(s[i].c) + upto(i - 1)
  IN upto(Len(s))

ByteCount(bytes) == SumRuns(bytes.full, Utf8Len) + bytes.pk

\* bytes.slice(0, maxBytes)
RECURSIVE SliceRuns(_, _)
SliceRuns(s, maxBytes) ==
  IF s = <<>> \/ maxBytes <= 0 THEN Bytes(<<>>, "", 0)
  ELSE LET w == Utf8Len(Head(s).c)
           whole == Head(s).n * w
       IN IF whole <= maxBytes
          THEN LET rest == SliceRuns(Tail(s), maxBytes - whole)
               IN Bytes(<<Head(s)>> \o rest.full, rest.pc, rest.pk)
          ELSE LET k == maxBytes \div w
                   part == maxBytes % w
               IN Bytes(IF k > 0 THEN <<Run(Head(s).c, k)>> ELSE <<>>,
                        IF part > 0 THEN Head(s).c ELSE "", part)

slice(bytes, maxBytes) ==
  IF ByteCount(bytes) <= maxBytes THEN bytes ELSE SliceRuns(bytes.full, maxBytes)

\* TextDecoder('utf-8').decode / Buffer.toString('utf8'): an incomplete
\* trailing sequence decodes to one U+FFFD
decode(bytes) ==
  IF bytes.pk > 0 THEN Concat(bytes.full, <<Run("FFFD", 1)>>) ELSE bytes.full

utf8ByteLength(value) == ByteCount(encode(value))

\* String.length
JsLength(s) == SumRuns(s, Utf16Len)

\* bytes of JSON.stringify(s) for a string s
JsonStringBytes(s) == 2 + SumRuns(s, JsonEscLen)

\* a base64 string: gzip of some bytes ("gz"), or something that is not
\* ("corrupt"); b64len is its length in characters
NoCompressed == [tag |-> "undefined", bytes |-> Bytes(<<>>, "", 0), b64len |-> 0]
Corrupt == [tag |-> "corrupt", bytes |-> Bytes(<<>>, "", 0), b64len |-> 28]

\* what compressToBase64 does: it throws, or returns b64len characters
NoGz == [threw |-> TRUE, b64len |-> 0]

\* compressToBase64; the length of the output is the deflate's business
compressToBase64(str, b64len) ==
  [tag |-> "gz", bytes |-> encode(str), b64len |-> b64len]

\* variant of decompressHtml: the buffer is decoded byte by byte (latin1)
decompressHtml_latin1(compressedBase64) ==
  IF compressedBase64.tag = "gz"
  THEN [ok |-> TRUE,
        html |-> [i \in 1..Len(compressedBase64.bytes.full) |->
                    LET r == compressedBase64.bytes.full[i]
                    IN IF Utf8Len(r.c) = 1 THEN r ELSE Run("latin1", r.n * Utf8Len(r.c))]]
  ELSE [ok |-> FALSE, html |-> <<>>]

\* decompressHtml: the text, or a throw
decompressHtml(compressedBase64) ==
  IF compressedBase64.tag = "gz"
  THEN [ok |-> TRUE, html |-> decode(compressedBase64.bytes)]
  ELSE [ok |-> FALSE, html |-> <<>>]

\* ---------------------------------------------------------------- messages
\* options.timeout absent
NoTimeout == -1

\* the url a RESULT echoes and the url the tab ended on
PeerUrl == <<Run("a", 1)>>
PeerFinalUrl == <<Run("a", 2)>>

\* other: bytes of JSON.stringify of the keys not listed here
Msg(type, taskId, success, html, hc, compression, error, status_code) ==
  [type |-> type, taskId |-> taskId, success |-> success, html |-> html,
   html_compressed |-> hc, compression |-> compression, error |-> error,
   status_code |-> status_code, url |-> PeerUrl, final_url |-> PeerFinalUrl,
   truncated |-> FALSE, original_html_bytes |-> -1, other |-> 200]

NullMsg == Msg("", 0, FALSE, Undefined, NoCompressed, "", "", 0)

ResultPlain(t)   == Msg("RESULT", t, TRUE, <<Run("a", 1)>>, NoCompressed, "", "", 200)
ResultGz(t)      == Msg("RESULT", t, TRUE, Undefined,
                        compressToBase64(<<Run("a", 1), Run("EUR", 1)>>, 32),
                        "gzip+base64", "", 200)
ResultCorrupt(t) == Msg("RESULT", t, TRUE, Undefined, Corrupt, "gzip+base64", "", 200)
ResultFail(t)    == Msg("RESULT", t, FALSE, Undefined, NoCompressed, "", "peer error", 0)

Digits(n) ==
  IF n < 10 THEN 1 ELSE IF n < 100 THEN 2 ELSE IF n < 1000 THEN 3
  ELSE IF n < 10000 THEN 4 ELSE IF n < 100000 THEN 5
  ELSE IF n < 1000000 THEN 6 ELSE IF n < 10000000 THEN 7 ELSE 8

ErrorLen(e) ==
  CASE e = "Message too large" -> 17
    [] e = "peer error" -> 10
    [] OTHER -> 0

\* utf8ByteLength(JSON.stringify(message)), key by key:
\*   ,"success":true  ,"error":"..."  ,"html":"..."  ,"html_compressed":"..."
\*   ,"compression":"gzip+base64"  ,"truncated":true  ,"original_html_bytes":N
SerializedBytes(m) ==
  m.other
  + (IF m.success THEN 15 ELSE 16)
  + (IF m.error # "" THEN 9 + 2 + ErrorLen(m.error) ELSE 0)
  + (IF m.html # Undefined THEN 8 + JsonStringBytes(m.html) ELSE 0)
  + (IF m.html_compressed.tag # "undefined"
     THEN 19 + 2 + m.html_compressed.b64len ELSE 0)
  + (IF m.compression # "" THEN 28 ELSE 0)
  + (IF m.truncated THEN 17 ELSE 0)
  + (IF m.original_html_bytes >= 0 THEN 23 + Digits(m.original_html_bytes) ELSE 0)

\* bytes of JSON.stringify({type: 'SCRAPE', taskId, url, options}):
\*   {"type":"SCRAPE"  ,"taskId":"task_<13 digits>_<8 hex>"  ,"url":"..."
\*   ,"options":{} or ,"options":{"timeout":N}  }
ScrapeBytes(m) ==
  16 + 39 + 7 + JsonStringBytes(m.url)
  + 11 + (IF m.timeout = NoTimeout THEN 2 ELSE 12 + Digits(m.timeout)) + 1

\* the keys that hold strings of the page or of the request
StringKeys == {"html", "url", "final_url"}

\* JSON.stringify(message) as a byte string: the string values encoded
JSONstringify(m) ==
  [k \in DOMAIN m |-> IF k \in StringKeys THEN encode(m[k]) ELSE m[k]]

\* Buffer.from(JSON.stringify(message), 'utf8').length
JsonBytes(m) ==
  IF m.type = "SCRAPE" THEN ScrapeBytes(m) ELSE SerializedBytes(m)

\* variant of JSONparse: the buffer is decoded byte by byte (latin1)
JSONparse_latin1(text) ==
  [k \in DOMAIN text |->
     IF k \in StringKeys
     THEN [i \in 1..Len(text[k].full) |->
             LET r == text[k].full[i]
             IN IF Utf8Len(r.c) = 1 THEN r ELSE Run("latin1", r.n * Utf8Len(r.c))]
     ELSE text[k]]

\* JSON.parse(messageBuffer.toString('utf8'))
JSONparse(text) ==
  [k \in DOMAIN text |-> IF k \in StringKeys THEN decode(text[k]) ELSE text[k]]

PeerMessages ==
  UNION {{ResultPlain(t), ResultGz(t), ResultCorrupt(t), ResultFail(t)} : t \in TaskIds}
  \cup {Msg("STATUS", 0, FALSE, Undefined, NoCompressed, "", "", 0)}

\* a frame on the pipe: the length its header announces, the length of its
\* body and the body
Frame(kind, hdr, len, text) == [kind |-> kind, hdr |-> hdr, len |-> len, text |-> text]

\* the frame the browser writes for a message of the extension
PeerFrame(m) == Frame("JSON", JsonBytes(m), JsonBytes(m), JSONstringify(m))

PeerFrames ==
  {PeerFrame(m) : m \in PeerMessages}
  \cup {Frame("BADJSON", MAX_MESSAGE_BYTES, MAX_MESSAGE_BYTES, JSONstringify(NullMsg)),
        Frame("OVERSIZE", MAX_MESSAGE_BYTES + 1, MAX_MESSAGE_BYTES + 1,
              JSONstringify(NullMsg))}

\* ------------------------------------------------------------ HTTP results
\* pending: the pending value of a /health body, -1 in every other body
NoResponse ==
  [status |-> 0, error |-> "", html |-> Undefined, status_code |-> 0,
   content_size |-> 0, final_url |-> Undefined, pending |-> -1]

Result(error, html, status_code, content_size, final_url) ==
  [error |-> error, html |-> html, status_code |-> status_code,
   content_size |-> content_size, final_url |-> final_url]

NoResult == Result("", Undefined, 0, 0, Undefined)

\* message.final_url || message.url
FinalUrl(message) ==
  IF Truthy(message.final_url) THEN message.final_url ELSE message.url

\* variant of SuccessResult: content_size counts UTF-8 bytes
SuccessResult_byteSize(message, html) ==
  Result("", html, message.status_code,
         IF Truthy(html) THEN utf8ByteLength(html) ELSE 0, FinalUrl(message))

\* the objects handleExtensionMessage resolves a pending request with
SuccessResult(message, html) ==
  Result("", html, message.status_code,
         IF Truthy(html) THEN JsLength(html) ELSE 0, FinalUrl(message))

DecompressionFailedResult(message) ==
  Result("Decompression failed", Undefined, 0, 0, FinalUrl(message))

FailureResult(message) ==
  Result(message.error, Undefined, message.status_code, 0, FinalUrl(message))

TimeoutResult(url) == Result("Request timeout", Undefined, 0, 0, url)

\* response mapping of app.post('/scrape') once resultPromise settled
HttpOf(result) ==
  [status |-> IF result.error # "" THEN 500 ELSE 200,
   error |-> result.error, html |-> result.html,
   status_code |-> result.status_code, content_size |-> result.content_size,
   final_url |-> result.final_url, pending |-> -1]

HttpError(status, error) ==
  [status |-> status, error |-> error, html |-> Undefined, status_code |-> 0,
   content_size |-> 0, final_url |-> Undefined, pending |-> -1]

\* the body of GET /health
HealthResponse(pending) ==
  [status |-> 200, error |-> "", html |-> Undefined, status_code |-> 0,
   content_size |-> 0, final_url |-> Undefined, pending |-> pending]

\* resolve handle of request r: every call is counted, the first one settles
\* resultPromise and the handler answers
resolve(r, result) ==
  /\ resolveCalls' = [resolveCalls EXCEPT ![r] = @ + 1]
  /\ response' = IF resolveCalls[r] = 0
                 THEN [response EXCEPT ![r] = HttpOf(result)]
                 ELSE response

\* an Authorization header: its words, <<>> when the header is missing
NoHeader == <<>>
Bearer(token) == <<"Bearer", token>>

\* a request body: not JSON, the JSON value null, or an object with its url
Body(kind, url) == [kind |-> kind, url |-> url]

\* an HTTP request: route ("scrape", "health"), Authorization header, body
\* and options.timeout
Request(route, authHeader, body, optTimeout) ==
  [route |-> route, authHeader |-> authHeader, body |-> body,
   timeout |-> optTimeout]
NoRequest == Request("none", NoHeader, Body("none", Undefined), NoTimeout)

\* ---------------------------------------------------- extension: commands
\* the SCRAPE commands the extension receives, numbered by their taskId
MaxScrapes == 2
Scrapes == 1..MaxScrapes

\* the ports connectNative opens over time, numbered in their order
MaxPorts == 2

\* one invocation of handleScrapeCommand: where it stands, the port its
\* command came in on, whether the command has a url, whether its tab is
\* open, and whether a step of its try block threw
Task(pc, port, hasUrl, tab, threw) ==
  [pc |-> pc, port |-> port, hasUrl |-> hasUrl, tab |-> tab, threw |-> threw]
NoTask == Task("none", 0, FALSE, FALSE, FALSE)

\* a message handed to nativePort.postMessage of port
PortMessage(port, type, taskId, success, error, status) ==
  [port |-> port, type |-> type, taskId |-> taskId, success |-> success,
   error |-> error, status |-> status]

\* the WebSocket extension: its config, and the sockets that may be alive
\* at the same time
reconnectInterval == 3000
maxReconnectAttempts == 10
MaxSockets == 2
SocketIds == 1..MaxSockets

\* the service worker of the WebSocket extension as installed.  ws: the
\* socket the variable ws holds (0: null); sockets: the state of each socket
\* ("none": not created, or its close event was delivered); reconnectTimer:
\* the delay of the timer it holds (0: null); timers: number of pending
\* setTimeout callbacks
NewWorker ==
  [enabled |-> FALSE, ws |-> 0, sockets |-> [i \in SocketIds |-> "none"],
   reconnectAttempts |-> 0, reconnectTimer |-> 0, timers |-> 0,
   connectionState |-> "disconnected"]

\* the extension before START (started = FALSE) and after START has run
\* connectToNativeHost
ExtensionInit(started) ==
  /\ enabled = started
  /\ nativePort = IF started THEN 1 ELSE 0
  /\ ports = IF started THEN 1 ELSE 0
  /\ openPorts = IF started THEN {1} ELSE {}
  /\ connectionState = IF started THEN "connected" ELSE "disconnected"
  /\ reconnectTimers = 0
  /\ isProcessing = FALSE
  /\ task = [k \in Scrapes |-> NoTask]
  /\ posted = <<>>
  /\ worker = NewWorker

\* ------------------------------------------------------------------- Init
HostInit(tokens) ==
  /\ AUTH_TOKEN \in tokens
  /\ alive = TRUE
  /\ serverOpen = TRUE
  /\ taskIdOf = [r \in Requests |-> 0]
  /\ timeoutOf = [r \in Requests |-> 0]
  /\ urlOf = [r \in Requests |-> Undefined]
  /\ req = [r \in Requests |-> NoRequest]
  /\ pendingRequests = [t \in TaskIds |-> 0]
  /\ timers = {}
  /\ resolveCalls = [r \in Requests |-> 0]
  /\ removeCount = [r \in Requests |-> 0]
  /\ response = [r \in Requests |-> NoResponse]
  /\ stdout = <<>>
  /\ stdin = <<>>
  /\ rpos = 0
  /\ pcRead = "length"
  /\ messageLength = 0
  /\ remaining = 0
  /\ stdinEnded = FALSE
  /\ decomp = {}
  /\ desync = FALSE
  /\ lastFrame = "none"
  /\ activeReads = 1             \* main is inside its first readMessage
  /\ gpc = "idle"
  /\ gin = NullMsg
  /\ ggz = NoGz
  /\ gout = NullMsg
  /\ gres = NoResult
  /\ tmax = 0
  /\ inflight = 0
  /\ received = <<>>
  /\ written = <<>>

\* Spec, LiveSpec, GovSpec: a token is configured
Init == HostInit({"secret"}) /\ ExtensionInit(FALSE)

\* ------------------------------------------------------------ HTTP gateway
AuthHeaders == {NoHeader, <<"Basic", "secret">>, <<"bearer", "secret">>,
                Bearer("wrong"), Bearer(""), Bearer("secret")}

\* authHeader.startsWith('Bearer ')
startsWithBearer(authHeader) == Len(authHeader) >= 2 /\ authHeader[1] = "Bearer"

\* authHeader.slice(7)
sliceToken(authHeader) == authHeader[2]

\* variant of authError: the token is not compared
authError_anyToken(authHeader) ==
  IF AUTH_TOKEN = "" THEN ""
  ELSE IF authHeader = NoHeader THEN "Authorization header required"
  ELSE IF ~startsWithBearer(authHeader) THEN "Invalid authorization format"
  ELSE ""

\* auth middleware: "" when the request passes, else the 401 error
authError(authHeader) ==
  IF AUTH_TOKEN = "" THEN ""
  ELSE IF authHeader = NoHeader THEN "Authorization header required"
  ELSE IF ~startsWithBearer(authHeader) THEN "Invalid authorization format"
  ELSE IF sliceToken(authHeader) # AUTH_TOKEN THEN "Invalid token"
  ELSE ""

\* ids that differ from every id generated before; ids are numbered in their
\* order of first use
FreshTaskIds ==
  {t \in TaskIds : /\ \A u \in 1..(t - 1) : \E q \in Requests : taskIdOf[q] = u
                   /\ \A q \in Requests : taskIdOf[q] # t}

\* generateTaskId: `task_${Date.now()}_${randomBytes(4)}`.  Nothing compares
\* the id with the ids in use: within one millisecond the four random bytes
\* decide, so the outcome is a fresh id or an id generated before.
generateTaskId ==
  FreshTaskIds \cup {t \in TaskIds : \E q \in Requests : taskIdOf[q] = t}

TimeoutOptions == {NoTimeout, 0, 50}

Urls == {<<Run("a", 1)>>, <<Run("EUR", 1)>>}
Bodies ==
  {Body("unparsable", Undefined), Body("null", Undefined),
   Body("object", Undefined), Body("object", <<>>)}
  \cup {Body("object", u) : u \in Urls}

\* the SCRAPE command of app.post('/scrape')
ScrapeCommand(taskId, url, optTimeout) ==
  [type |-> "SCRAPE", taskId |-> taskId, url |-> url, timeout |-> optTimeout]

\* one process.stdout.write
Chunk(kind, value, len, text) ==
  [kind |-> kind, value |-> value, len |-> len, text |-> text]
NoText == [type |-> ""]

\* variant of sendMessage: the header holds the length of the string
sendMessage_stringLength(message) ==
  <<Chunk("header", JsonBytes(message) - utf8ByteLength(message.url)
                    + JsLength(message.url), HEADER_BYTES, NoText),
    Chunk("body", 0, JsonBytes(message), JSONstringify(message))>>

\* sendMessage: the two writes, the length header and the body
sendMessage(message) ==
  <<Chunk("header", JsonBytes(message), HEADER_BYTES, NoText),
    Chunk("body", 0, JsonBytes(message), JSONstringify(message))>>

\* a request that has not arrived yet; requests are numbered in their order
\* of arrival
NotArrived(r) ==
  /\ taskIdOf[r] = 0 /\ response[r].status = 0
  /\ \A q \in 1..(r - 1) : taskIdOf[q] # 0 \/ response[q].status # 0

\* app.post('/scrape') behind the auth middleware; ids: the outcomes of
\* generateTaskId that are considered
PostScrapeWith(r, authHeader, body, optTimeout, ids) ==
  /\ alive /\ serverOpen
  /\ NotArrived(r)
  /\ req' = [req EXCEPT ![r] = Request("scrape", authHeader, body, optTimeout)]
  /\ IF authError(authHeader) # ""
     THEN /\ response' = [response EXCEPT ![r] = HttpError(401, authError(authHeader))]
          /\ UNCHANGED <<taskIdOf, timeoutOf, urlOf, pendingRequests, timers, stdout>>
     ELSE IF body.kind = "unparsable"
     THEN /\ response' = [response EXCEPT ![r] = HttpError(400, "Invalid JSON body")]
          /\ UNCHANGED <<taskIdOf, timeoutOf, urlOf, pendingRequests, timers, stdout>>
     ELSE IF body.kind = "null"
     \* const { url, options = {} } = null throws, the framework answers
     THEN /\ response' = [response EXCEPT ![r] = HttpError(500, "Internal Server Error")]
          /\ UNCHANGED <<taskIdOf, timeoutOf, urlOf, pendingRequests, timers, stdout>>
     ELSE IF ~Truthy(body.url)
     THEN /\ response' = [response EXCEPT ![r] = HttpError(400, "URL is required")]
          /\ UNCHANGED <<taskIdOf, timeoutOf, urlOf, pendingRequests, timers, stdout>>
     ELSE \E taskId \in ids :
          /\ taskIdOf' = [taskIdOf EXCEPT ![r] = taskId]
          /\ urlOf' = [urlOf EXCEPT ![r] = body.url]
          /\ timeoutOf' = [timeoutOf EXCEPT ![r] =
                 IF optTimeout = NoTimeout \/ optTimeout = 0
                 THEN DEFAULT_TIMEOUT ELSE optTimeout]
          /\ timers' = timers \cup {r}
          /\ pendingRequests' = [pendingRequests EXCEPT ![taskId] = r]
          /\ stdout' = stdout \o sendMessage(ScrapeCommand(taskId, body.url, optTimeout))
          /\ UNCHANGED response
  /\ UNCHANGED <<worker, peerVars, govVars, wireVars>>
  /\ UNCHANGED <<AUTH_TOKEN, activeReads, alive, serverOpen, resolveCalls, removeCount,
                 stdin, rpos, pcRead, messageLength, remaining, stdinEnded,
                 decomp, desync, lastFrame>>

\* app.post('/scrape') when the random bytes of generateTaskId never repeat
\* an id (CollisionSpec has the other outcomes)
PostScrape(r, authHeader, body, optTimeout) ==
  PostScrapeWith(r, authHeader, body, optTimeout, FreshTaskIds)

\* variant of pendingRequests_size: every taskId issued so far is counted
pendingRequests_size_issued == Cardinality({r \in Requests : taskIdOf[r] # 0})

\* pendingRequests.size
pendingRequests_size == Cardinality({t \in TaskIds : pendingRequests[t] # 0})

\* app.get('/health') behind the auth middleware
GetHealth(r, authHeader) ==
  /\ alive /\ serverOpen
  /\ NotArrived(r)
  /\ req' = [req EXCEPT ![r] =
               Request("health", authHeader, Body("none", Undefined), NoTimeout)]
  /\ response' = [response EXCEPT ![r] =
        IF authError(authHeader) # ""
        THEN HttpError(401, authError(authHeader))
        ELSE HealthResponse(pendingRequests_size)]
  /\ UNCHANGED <<worker, peerVars, govVars, wireVars, urlOf>>
  /\ UNCHANGED <<AUTH_TOKEN, activeReads, alive, serverOpen, taskIdOf, timeoutOf,
                 pendingRequests, timers, resolveCalls, removeCount, stdout,
                 stdin, rpos, pcRead, messageLength, remaining, stdinEnded,
                 decomp, desync, lastFrame>>

\* variant of TimerFire: the callback removes the entry and forgets to resolve
TimerFire_noResolve(r) ==
  /\ alive
  /\ r \in timers
  /\ timers' = timers \ {r}
  /\ pendingRequests' = [pendingRequests EXCEPT ![taskIdOf[r]] = 0]
  /\ UNCHANGED <<worker, peerVars, govVars, wireVars, urlOf, req>>
  /\ UNCHANGED <<AUTH_TOKEN, activeReads, alive, serverOpen, taskIdOf, timeoutOf, stdout,
                 stdin, rpos, pcRead, messageLength, remaining, stdinEnded,
                 decomp, desync, lastFrame, removeCount, resolveCalls, response>>

\* variant of TimerFire: the callback resolves and leaves the entry in place
TimerFire_keepEntry(r) ==
  /\ alive
  /\ r \in timers
  /\ timers' = timers \ {r}
  /\ resolve(r, TimeoutResult(urlOf[r]))
  /\ UNCHANGED <<worker, peerVars, govVars, wireVars, urlOf, req>>
  /\ UNCHANGED <<AUTH_TOKEN, activeReads, alive, serverOpen, taskIdOf, timeoutOf, stdout,
                 stdin, rpos, pcRead, messageLength, remaining, stdinEnded,
                 decomp, desync, lastFrame, pendingRequests, removeCount>>

\* the setTimeout callback of resultPromise
TimerFire(r) ==
  /\ alive
  /\ r \in timers
  /\ timers' = timers \ {r}
  /\ LET taskId == taskIdOf[r]
         owner == pendingRequests[taskId]
     IN /\ pendingRequests' = [pendingRequests EXCEPT ![taskId] = 0]
        /\ removeCount' = IF owner # 0
                          THEN [removeCount EXCEPT ![owner] = @ + 1]
                          ELSE removeCount
  /\ resolve(r, TimeoutResult(urlOf[r]))
  /\ UNCHANGED <<worker, peerVars, govVars, wireVars, urlOf, req>>
  /\ UNCHANGED <<AUTH_TOKEN, activeReads, alive, serverOpen, taskIdOf, timeoutOf, stdout,
                 stdin, rpos, pcRead, messageLength, remaining, stdinEnded,
                 decomp, desync, lastFrame>>

\* ------------------------------------------------------------- read loop
RECURSIVE StreamBytes(_)
StreamBytes(frames) ==
  IF frames = <<>> THEN 0
  ELSE HEADER_BYTES + Head(frames).len + StreamBytes(Tail(frames))

\* bytes buffered or still to arrive on stdin
Available == StreamBytes(stdin) - rpos - inflight

\* process.stdin.read(n) returning n bytes: the stream after the read
RECURSIVE AfterRead(_, _)
AfterRead(frames, pos) ==
  IF frames # <<>> /\ pos >= HEADER_BYTES + Head(frames).len
  THEN AfterRead(Tail(frames), pos - (HEADER_BYTES + Head(frames).len))
  ELSE <<frames, pos>>

Consume(n) ==
  /\ stdin' = AfterRead(stdin, rpos + n)[1]
  /\ rpos' = AfterRead(stdin, rpos + n)[2]

\* the environment: the peer writes one frame to the pipe
PeerWrite(frame) ==
  /\ alive /\ ~stdinEnded
  /\ Len(stdin) < MaxStdin
  /\ stdin' = Append(stdin, frame)
  /\ UNCHANGED <<worker, peerVars, govVars, wireVars, urlOf, req>>
  /\ UNCHANGED <<AUTH_TOKEN, activeReads, alive, serverOpen, taskIdOf, timeoutOf,
                 pendingRequests, timers, resolveCalls, removeCount, response,
                 stdout, rpos, pcRead, messageLength, remaining, stdinEnded,
                 decomp, desync, lastFrame>>

\* variant of ReadLength: an oversized frame rejects at once, so that main
\* calls readMessage again while discardBody still reads the body
ReadLength_rejectBeforeDrain ==
  /\ alive /\ pcRead = "length"
  /\ Available >= HEADER_BYTES
  /\ Consume(HEADER_BYTES)
  /\ IF rpos = 0
     THEN /\ messageLength' = Head(stdin).hdr
          /\ desync' = desync
          /\ IF Head(stdin).hdr > MAX_MESSAGE_BYTES
             THEN /\ pcRead' = "discard" /\ remaining' = Head(stdin).hdr
                  /\ activeReads' = activeReads + 1
             ELSE /\ pcRead' = "body" /\ remaining' = remaining
                  /\ UNCHANGED activeReads
     ELSE /\ desync' = TRUE          \* the four bytes are not a header
          /\ pcRead' = "stopped"
          /\ UNCHANGED <<messageLength, remaining, activeReads>>
  /\ UNCHANGED <<worker, peerVars, govVars, wireVars, urlOf, req>>
  /\ UNCHANGED <<AUTH_TOKEN, alive, serverOpen, taskIdOf, timeoutOf,
                 pendingRequests, timers, resolveCalls, removeCount, response,
                 stdout, stdinEnded, decomp, lastFrame>>

\* readMessage / readLength
ReadLength ==
  /\ alive /\ pcRead = "length"
  /\ Available >= HEADER_BYTES
  /\ Consume(HEADER_BYTES)
  /\ IF rpos = 0
     THEN /\ messageLength' = Head(stdin).hdr
          /\ desync' = desync
          /\ IF Head(stdin).hdr > MAX_MESSAGE_BYTES
             THEN pcRead' = "discard" /\ remaining' = Head(stdin).hdr
             ELSE pcRead' = "body" /\ remaining' = remaining
     ELSE /\ desync' = TRUE          \* the four bytes are not a header
          /\ pcRead' = "stopped"
          /\ UNCHANGED <<messageLength, remaining>>
  /\ UNCHANGED <<worker, peerVars, govVars, wireVars, urlOf, req>>
  /\ UNCHANGED <<AUTH_TOKEN, activeReads, alive, serverOpen, taskIdOf, timeoutOf,
                 pendingRequests, timers, resolveCalls, removeCount, response,
                 stdout, stdinEnded, decomp, lastFrame>>

\* variant of DiscardChunkSize: the whole body is asked for in one read
DiscardChunkSize_unbounded(rem) == rem

DiscardChunkSize(rem) == IF rem < DISCARD_CHUNK_BYTES THEN rem ELSE DISCARD_CHUNK_BYTES

\* readMessage / discardBody, one discardChunk; the last one rejects with
\* 'Message too large' and main continues with the next readMessage
DiscardChunk ==
  /\ alive /\ pcRead = "discard"
  /\ Available >= DiscardChunkSize(remaining)
  /\ Consume(DiscardChunkSize(remaining))
  /\ remaining' = remaining - DiscardChunkSize(remaining)
  \* messageLength is a local of the readMessage call that ends here
  /\ IF remaining' > 0
     THEN UNCHANGED <<pcRead, lastFrame, messageLength, activeReads>>
     ELSE /\ pcRead' = "length" /\ lastFrame' = "too large" /\ messageLength' = 0
          \* the call rejects, main continues and calls readMessage
          /\ activeReads' = (activeReads - 1) + 1
  /\ UNCHANGED <<worker, peerVars, govVars, wireVars, urlOf, req>>
  /\ UNCHANGED <<AUTH_TOKEN, alive, serverOpen, taskIdOf, timeoutOf,
                 pendingRequests, timers, resolveCalls, removeCount, response,
                 stdout, stdinEnded, decomp, desync>>

\* pendingRequests.get(taskId); a taskId that is missing or is no taskId
\* (0) finds nothing
pendingRequests_get(taskId) ==
  IF taskId \in TaskIds THEN pendingRequests[taskId] ELSE 0

\* the JSON value null: reading a property of it throws
JsonNull == [NullMsg EXCEPT !.type = "#null"]

\* variant of handleExtensionMessage: the type of the message is not
\* looked at
handleExtensionMessage_anyType(message) ==
  IF pendingRequests_get(message.taskId) # 0
  THEN LET pending == pendingRequests_get(message.taskId)
       IN /\ timers' = timers \ {pending}
          /\ pendingRequests' = [pendingRequests EXCEPT ![message.taskId] = 0]
          /\ removeCount' = [removeCount EXCEPT ![pending] = @ + 1]
          /\ IF message.success
             THEN IF message.html_compressed.tag # "undefined" /\ message.compression = "gzip+base64"
                  THEN /\ decomp' = decomp \cup {[owner |-> pending, message |-> message]}
                       /\ UNCHANGED <<resolveCalls, response>>
                  ELSE /\ resolve(pending, SuccessResult(message, message.html))
                       /\ UNCHANGED decomp
             ELSE /\ resolve(pending, FailureResult(message))
                  /\ UNCHANGED decomp
  ELSE UNCHANGED <<timers, pendingRequests, removeCount, resolveCalls, response, decomp>>

\* variant of handleExtensionMessage: the expiry timer is not cleared
handleExtensionMessage_noClear(message) ==
  IF message.type = "RESULT" /\ pendingRequests_get(message.taskId) # 0
  THEN LET pending == pendingRequests_get(message.taskId)
       IN /\ timers' = timers
          /\ pendingRequests' = [pendingRequests EXCEPT ![message.taskId] = 0]
          /\ removeCount' = [removeCount EXCEPT ![pending] = @ + 1]
          /\ IF message.success
             THEN IF message.html_compressed.tag # "undefined" /\ message.compression = "gzip+base64"
                  THEN /\ decomp' = decomp \cup {[owner |-> pending, message |-> message]}
                       /\ UNCHANGED <<resolveCalls, response>>
                  ELSE /\ resolve(pending, SuccessResult(message, message.html))
                       /\ UNCHANGED decomp
             ELSE /\ resolve(pending, FailureResult(message))
                  /\ UNCHANGED decomp
  ELSE UNCHANGED <<timers, pendingRequests, removeCount, resolveCalls, response, decomp>>

\* variant of handleExtensionMessage: a RESULT without a pending entry is
\* handed to the requests that were issued its taskId
handleExtensionMessage_noLookup(message) ==
  IF message.type = "RESULT" /\ pendingRequests_get(message.taskId) # 0
  THEN LET pending == pendingRequests_get(message.taskId)
       IN /\ timers' = timers \ {pending}
          /\ pendingRequests' = [pendingRequests EXCEPT ![message.taskId] = 0]
          /\ removeCount' = [removeCount EXCEPT ![pending] = @ + 1]
          /\ IF message.success
             THEN IF message.html_compressed.tag # "undefined" /\ message.compression = "gzip+base64"
                  THEN /\ decomp' = decomp \cup {[owner |-> pending, message |-> message]}
                       /\ UNCHANGED <<resolveCalls, response>>
                  ELSE /\ resolve(pending, SuccessResult(message, message.html))
                       /\ UNCHANGED decomp
             ELSE /\ resolve(pending, FailureResult(message))
                  /\ UNCHANGED decomp
  ELSE IF message.type = "RESULT"
  THEN /\ resolveCalls' = [r \in Requests |->
             IF taskIdOf[r] = message.taskId THEN resolveCalls[r] + 1
             ELSE resolveCalls[r]]
       /\ UNCHANGED <<timers, pendingRequests, removeCount, response, decomp>>
  ELSE UNCHANGED <<timers, pendingRequests, removeCount, resolveCalls, response, decomp>>

\* handleExtensionMessage up to its first await
handleExtensionMessage(message) ==
  IF message.type = "RESULT" /\ pendingRequests_get(message.taskId) # 0
  THEN LET pending == pendingRequests_get(message.taskId)
       IN /\ timers' = timers \ {pending}
          /\ pendingRequests' = [pendingRequests EXCEPT ![message.taskId] = 0]
          /\ removeCount' = [removeCount EXCEPT ![pending] = @ + 1]
          /\ IF message.success
             THEN IF message.html_compressed.tag # "undefined" /\ message.compression = "gzip+base64"
                  THEN /\ decomp' = decomp \cup {[owner |-> pending, message |-> message]}
                       /\ UNCHANGED <<resolveCalls, response>>
                  ELSE /\ resolve(pending, SuccessResult(message, message.html))
                       /\ UNCHANGED decomp
             ELSE /\ resolve(pending, FailureResult(message))
                  /\ UNCHANGED decomp
  ELSE UNCHANGED <<timers, pendingRequests, removeCount, resolveCalls, response, decomp>>

\* readBody(length) once length bytes were read: JSON.parse of these bytes,
\* which are the body of the frame when length is the length of that body
readBody(frame, length) ==
  IF frame.kind = "JSON" /\ length = frame.len
  THEN [ok |-> TRUE, message |-> JSONparse(frame.text)]
  ELSE [ok |-> FALSE, message |-> NullMsg]

\* what the runtime does with the rejection of a promise nobody awaits:
\* "throw" (the default of Node.js 15 and later) ends the process with exit
\* code 1, "warn" prints a warning
UnhandledRejections == {"throw", "warn"}

\* readMessage / readBody followed by main's handling of the outcome
ReadBody ==
  /\ alive /\ pcRead = "body"
  /\ Available >= messageLength
  /\ Consume(messageLength)
  /\ LET read == readBody(Head(stdin), messageLength)
     IN IF read.ok /\ read.message = JsonNull
        \* message.type throws inside the async handleExtensionMessage, whose
        \* promise main does not await
        THEN /\ \E mode \in UnhandledRejections :
                  /\ alive' = (mode = "warn")
                  /\ serverOpen' = (serverOpen /\ mode = "warn")
             /\ pcRead' = "length"
             /\ lastFrame' = "rejected"
             /\ UNCHANGED <<timers, pendingRequests, removeCount, resolveCalls,
                            response, decomp>>
        ELSE IF read.ok
        THEN /\ handleExtensionMessage(read.message)
             /\ pcRead' = "length"
             \* a RESULT without entry is logged as such; a message that is
             \* neither RESULT nor STATUS runs through no branch
             /\ lastFrame' = IF read.message.type \notin {"RESULT", "STATUS"}
                             THEN "ignored"
                             ELSE IF /\ read.message.type = "RESULT"
                                     /\ pendingRequests_get(read.message.taskId) = 0
                             THEN "no pending" ELSE "handled"
             /\ UNCHANGED <<alive, serverOpen>>
        ELSE /\ pcRead' = "stopped"       \* JSON.parse threw, main breaks
             /\ lastFrame' = "bad json"
             /\ UNCHANGED <<timers, pendingRequests, removeCount, resolveCalls,
                            response, decomp, alive, serverOpen>>
  /\ messageLength' = 0        \* a local of the readMessage call that ends here
  \* the call settles; main calls readMessage again unless it breaks out of
  \* the loop or the process ends
  /\ activeReads' = IF alive' /\ pcRead' = "length"
                    THEN (activeReads - 1) + 1 ELSE activeReads - 1
  /\ UNCHANGED <<worker, peerVars, govVars, wireVars, urlOf, req>>
  /\ UNCHANGED <<AUTH_TOKEN, taskIdOf, timeoutOf, stdout,
                 remaining, stdinEnded, desync>>

\* variant of DecompressDone: the throw of decompressHtml is not caught
DecompressDone_uncaught(job) ==
  /\ alive
  /\ job \in decomp
  /\ decomp' = decomp \ {job}
  /\ LET d == decompressHtml(job.message.html_compressed)
     IN IF d.ok
        THEN resolve(job.owner, SuccessResult(job.message, d.html))
        ELSE UNCHANGED <<resolveCalls, response>>
  /\ UNCHANGED <<worker, peerVars, govVars, wireVars, urlOf, req>>
  /\ UNCHANGED <<AUTH_TOKEN, activeReads, alive, serverOpen, taskIdOf, timeoutOf,
                 pendingRequests, timers, removeCount, stdout, stdin, rpos,
                 pcRead, messageLength, remaining, stdinEnded, desync, lastFrame>>

\* continuation of handleExtensionMessage after await decompressHtml
DecompressDone(job) ==
  /\ alive
  /\ job \in decomp
  /\ decomp' = decomp \ {job}
  /\ LET d == decompressHtml(job.message.html_compressed)
     IN IF d.ok
        THEN resolve(job.owner, SuccessResult(job.message, d.html))
        ELSE resolve(job.owner, DecompressionFailedResult(job.message))
  /\ UNCHANGED <<worker, peerVars, govVars, wireVars, urlOf, req>>
  /\ UNCHANGED <<AUTH_TOKEN, activeReads, alive, serverOpen, taskIdOf, timeoutOf,
                 pendingRequests, timers, removeCount, stdout, stdin, rpos,
                 pcRead, messageLength, remaining, stdinEnded, desync, lastFrame>>

\* the peer closes the pipe: the stdin 'end' handler of main
StdinEnd ==
  /\ alive /\ ~stdinEnded
  /\ stdin = <<>> /\ pcRead = "length"
  /\ stdinEnded' = TRUE
  /\ serverOpen' = FALSE        \* server.close()
  /\ alive' = FALSE             \* process.exit(0)
  /\ activeReads' = 0
  /\ UNCHANGED <<worker, peerVars, govVars, wireVars, urlOf, req>>
  /\ UNCHANGED <<AUTH_TOKEN, taskIdOf, timeoutOf, pendingRequests, timers,
                 resolveCalls, removeCount, response, stdout, stdin, rpos,
                 pcRead, messageLength, remaining, decomp, desync, lastFrame>>

\* Spec: requests that carry the configured token and a url (GateSpec has
\* the requests that are refused)
SpecBodies == {Body("object", <<Run("EUR", 1)>>)}

Next ==
  \/ \E r \in Requests, b \in SpecBodies :
        PostScrape(r, Bearer("secret"), b, NoTimeout)
  \/ \E r \in Requests : TimerFire(r)
  \/ \E f \in PeerFrames : PeerWrite(f)
  \/ ReadLength
  \/ DiscardChunk
  \/ ReadBody
  \/ \E j \in decomp : DecompressDone(j)
  \/ StdinEnd

Spec == Init /\ [][Next]_vars

\* ------------------------------------------------- payload size governor
MAX_NATIVE_MESSAGE_BYTES == 921600
HTML_TRUNCATION_SUFFIX == <<Run("nl", 1), Run("<!-- truncated -->", 1)>>

truncateStringByBytes(value, maxBytes) ==
  IF maxBytes <= 0 THEN <<>>
  ELSE LET bytes == encode(value)
       IN IF ByteCount(bytes) <= maxBytes THEN value
          ELSE decode(slice(bytes, maxBytes))

\* sanitizeNativeMessage, compression tier: the command with html replaced
CompressedMessage(message, gz) ==
  [message EXCEPT !.html = Undefined,
                  !.html_compressed = compressToBase64(message.html, gz.b64len),
                  !.compression = "gzip+base64",
                  !.original_html_bytes = utf8ByteLength(message.html)]

\* sanitizeNativeMessage, truncation fallback
TruncationFallback(message) ==
  LET originalHtmlBytes == utf8ByteLength(message.html)
      base == [message EXCEPT !.html = <<>>, !.truncated = TRUE,
                              !.original_html_bytes = originalHtmlBytes]
      baseBytes == SerializedBytes(base)
      remainingBytes == MAX_NATIVE_MESSAGE_BYTES - baseBytes
      suffixBytes == utf8ByteLength(HTML_TRUNCATION_SUFFIX)
      htmlBudget == IF remainingBytes - suffixBytes > 0
                    THEN remainingBytes - suffixBytes ELSE 0
      truncatedHtml == Concat(truncateStringByBytes(message.html, htmlBudget),
                              HTML_TRUNCATION_SUFFIX)
  IN IF remainingBytes <= 0 THEN base
     ELSE [message EXCEPT !.html = truncatedHtml, !.truncated = TRUE,
                          !.original_html_bytes = originalHtmlBytes]

\* variant of sanitizeNativeMessage: the compression attempt is skipped
sanitizeNativeMessage_noCompression(message, gz) ==
  IF SerializedBytes(message) <= MAX_NATIVE_MESSAGE_BYTES THEN message
  ELSE IF message.html = Undefined
  THEN [message EXCEPT !.error = "Message too large", !.success = FALSE]
  ELSE TruncationFallback(message)

\* variant of sanitizeNativeMessage: a command of exactly the ceiling is
\* not passed through
sanitizeNativeMessage_belowCeiling(message, gz) ==
  IF SerializedBytes(message) < MAX_NATIVE_MESSAGE_BYTES THEN message
  ELSE IF message.html = Undefined
  THEN [message EXCEPT !.error = "Message too large", !.success = FALSE]
  ELSE IF ~gz.threw
          /\ SerializedBytes(CompressedMessage(message, gz)) <= MAX_NATIVE_MESSAGE_BYTES
  THEN CompressedMessage(message, gz)
  ELSE TruncationFallback(message)

sanitizeNativeMessage(message, gz) ==
  IF SerializedBytes(message) <= MAX_NATIVE_MESSAGE_BYTES THEN message
  ELSE IF message.html = Undefined
  THEN [message EXCEPT !.error = "Message too large", !.success = FALSE]
  ELSE IF ~gz.threw
          /\ SerializedBytes(CompressedMessage(message, gz)) <= MAX_NATIVE_MESSAGE_BYTES
  THEN CompressedMessage(message, gz)
  ELSE TruncationFallback(message)

\* what handleExtensionMessage resolves the pending request of a RESULT with
ResolvedWith(message) ==
  IF message.success
  THEN IF message.html_compressed.tag # "undefined" /\ message.compression = "gzip+base64"
       THEN LET d == decompressHtml(message.html_compressed)
            IN IF d.ok THEN SuccessResult(message, d.html)
               ELSE DecompressionFailedResult(message)
       ELSE SuccessResult(message, message.html)
  ELSE FailureResult(message)

\* inputs of the governor
MaxRuns == 2
MaxSlack == 2
HtmlCounts == {1, 2, 307200, 921600}
RunsOf == {Run(c, n) : c \in Chars, n \in HtmlCounts}

\* the strings of at most k runs
RECURSIVE StringsUpTo(_)
StringsUpTo(k) ==
  IF k = 0 THEN {<<>>}
  ELSE LET shorter == StringsUpTo(k - 1)
       IN shorter \cup
          {Append(s, r) : <<s, r>> \in
             {p \in shorter \X RunsOf :
                p[1] = <<>> \/ p[1][Len(p[1])].c # p[2].c}}

GovHtmls == StringsUpTo(MaxRuns)
GovOthers ==
  {200 + k : k \in 0..MaxSlack}
  \cup {MAX_NATIVE_MESSAGE_BYTES - 70, MAX_NATIVE_MESSAGE_BYTES - 40,
        MAX_NATIVE_MESSAGE_BYTES - 15, MAX_NATIVE_MESSAGE_BYTES}
GovGz == {NoGz, [threw |-> FALSE, b64len |-> 1000],
          [threw |-> FALSE, b64len |-> 1000000]}

\* the RESULT commands handleScrapeCommand builds
GovResult(html, other, success) ==
  [Msg("RESULT", 1, success, html, NoCompressed, "",
       IF success THEN "" ELSE "peer error", 200) EXCEPT !.other = other]

\* sendToNativeHost: sanitizeNativeMessage, then nativePort.postMessage
SendToNativeHost(message, gz) ==
  /\ gpc = "idle"
  /\ gin' = message
  /\ ggz' = gz
  /\ gout' = sanitizeNativeMessage(message, gz)
  /\ gpc' = "posted"
  /\ UNCHANGED <<gres, tmax>>
  /\ UNCHANGED <<worker, hostVars, wireVars, peerVars>>

\* the host reads the frame and handleExtensionMessage resolves the request
HostResolves ==
  /\ gpc = "posted"
  /\ gout.type = "RESULT"
  /\ SerializedBytes(gout) <= MAX_MESSAGE_BYTES
  /\ gres' = ResolvedWith(gout)
  /\ gpc' = "delivered"
  /\ UNCHANGED <<gin, ggz, gout, tmax>>
  /\ UNCHANGED <<worker, hostVars, wireVars, peerVars>>

\* one call truncateStringByBytes(value, maxBytes)
Truncate(value, maxBytes) ==
  /\ gpc = "idle"
  /\ gin' = [NullMsg EXCEPT !.html = value]
  /\ tmax' = maxBytes
  /\ gout' = [NullMsg EXCEPT !.html = truncateStringByBytes(value, maxBytes)]
  /\ gpc' = "truncated"
  /\ UNCHANGED <<ggz, gres>>
  /\ UNCHANGED <<worker, hostVars, wireVars, peerVars>>

MaxBudget == 7
SmallHtmls == {s \in GovHtmls : \A i \in 1..Len(s) : s[i].n <= 2}

GovNext ==
  \/ \E html \in GovHtmls \cup {Undefined}, other \in GovOthers, gz \in GovGz :
        SendToNativeHost(GovResult(html, other, TRUE), gz)
  \/ \E other \in GovOthers :
        SendToNativeHost(GovResult(Undefined, other, FALSE), NoGz)
  \/ HostResolves
  \/ \E value \in SmallHtmls, maxBytes \in 0..MaxBudget : Truncate(value, maxBytes)

GovSpec == Init /\ [][GovNext]_vars

\* A running Node process fires every armed timer and completes every gunzip.
Fairness ==
  \A r \in Requests :
    /\ WF_vars(TimerFire(r))
    /\ WF_vars(\E j \in decomp : j.owner = r /\ DecompressDone(j))

\* LiveSpec: the same steps, with at most MaxLiveRequests scrape requests
MaxLiveRequests == 1

LiveNext ==
  \/ \E r \in 1..MaxLiveRequests, b \in SpecBodies :
        PostScrape(r, Bearer("secret"), b, NoTimeout)
  \/ \E r \in Requests : TimerFire(r)
  \/ \E f \in PeerFrames : PeerWrite(f)
  \/ ReadLength
  \/ DiscardChunk
  \/ ReadBody
  \/ \E j \in decomp : DecompressDone(j)
  \/ StdinEnd

LiveSpec == Init /\ [][LiveNext]_vars /\ Fairness

\* ------------------------------------------- extension: handleScrapeCommand
\* sendToNativeHost of a command far below the ceiling, which
\* sanitizeNativeMessage returns as it is: posted when nativePort is set,
\* dropped otherwise
postMessage(queue, type, taskId, success, error, status) ==
  IF nativePort # 0
  THEN Append(queue, PortMessage(nativePort, type, taskId, success, error, status))
  ELSE queue

\* variant of ReceiveScrape: isProcessing is not looked at
ReceiveScrape_noGuard(k, hasUrl) ==
  /\ nativePort # 0
  /\ task[k].pc = "none"
  /\ \A j \in 1..(k - 1) : task[j].pc # "none"
  /\ IF ~hasUrl
     THEN /\ posted' = postMessage(posted, "RESULT", k, FALSE, "URL is required", "")
          /\ task' = [task EXCEPT ![k] = Task("done", nativePort, hasUrl, FALSE, FALSE)]
          /\ UNCHANGED isProcessing
     ELSE /\ isProcessing' = TRUE
          /\ posted' = postMessage(posted, "STATUS", k, FALSE, "", "processing")
          /\ task' = [task EXCEPT ![k] = Task("create", nativePort, hasUrl, FALSE, FALSE)]
  /\ UNCHANGED <<enabled, nativePort, ports, openPorts, connectionState, reconnectTimers>>
  /\ UNCHANGED <<worker, hostVars, govVars, wireVars>>

\* handleNativeMessage for a SCRAPE: handleScrapeCommand up to its first
\* await of the browser (the sends before it wait for microtasks only)
ReceiveScrape(k, hasUrl) ==
  /\ nativePort # 0
  /\ task[k].pc = "none"
  /\ \A j \in 1..(k - 1) : task[j].pc # "none"
  /\ IF ~hasUrl
     THEN /\ posted' = postMessage(posted, "RESULT", k, FALSE, "URL is required", "")
          /\ task' = [task EXCEPT ![k] = Task("done", nativePort, hasUrl, FALSE, FALSE)]
          /\ UNCHANGED isProcessing
     ELSE IF isProcessing
     THEN /\ posted' = postMessage(posted, "RESULT", k, FALSE,
                                   "Already processing another task", "")
          /\ task' = [task EXCEPT ![k] = Task("done", nativePort, hasUrl, FALSE, FALSE)]
          /\ UNCHANGED isProcessing
     ELSE /\ isProcessing' = TRUE
          /\ posted' = postMessage(posted, "STATUS", k, FALSE, "", "processing")
          /\ task' = [task EXCEPT ![k] = Task("create", nativePort, hasUrl, FALSE, FALSE)]
  /\ UNCHANGED <<enabled, nativePort, ports, openPorts, connectionState, reconnectTimers>>
  /\ UNCHANGED <<worker, hostVars, govVars, wireVars>>

\* the finally block once chrome.tabs.remove is through, or at once when no
\* tab was created
finally(k, queue) ==
  /\ isProcessing' = FALSE
  /\ posted' = postMessage(queue, "STATUS", 0, FALSE, "", "ready")
  /\ task' = [task EXCEPT ![k].pc = "done", ![k].tab = FALSE]

\* variant of catch: no failure RESULT is sent
catch_silent(k, tab) ==
  IF tab
  THEN /\ task' = [task EXCEPT ![k].pc = "remove", ![k].tab = TRUE,
                                ![k].threw = TRUE]
       /\ UNCHANGED <<isProcessing, posted>>
  ELSE /\ isProcessing' = FALSE
       /\ posted' = postMessage(posted, "STATUS", 0, FALSE, "", "ready")
       /\ task' = [task EXCEPT ![k].pc = "done", ![k].threw = TRUE]

\* a step of the try block threw: the catch block sends the failure RESULT,
\* then the finally block runs up to chrome.tabs.remove
catch(k, tab) ==
  LET queue == postMessage(posted, "RESULT", k, FALSE, "task error", "")
  IN IF tab
     THEN /\ posted' = queue
          /\ task' = [task EXCEPT ![k].pc = "remove", ![k].tab = TRUE,
                                  ![k].threw = TRUE]
          /\ UNCHANGED isProcessing
     ELSE /\ isProcessing' = FALSE
          /\ posted' = postMessage(queue, "STATUS", 0, FALSE, "", "ready")
          /\ task' = [task EXCEPT ![k].pc = "done", ![k].threw = TRUE]

\* await chrome.tabs.create settles
CreateTab(k, ok) ==
  /\ task[k].pc = "create"
  /\ IF ok
     THEN /\ task' = [task EXCEPT ![k].pc = "load", ![k].tab = TRUE]
          /\ UNCHANGED <<isProcessing, posted>>
     ELSE catch(k, FALSE)
  /\ UNCHANGED <<enabled, nativePort, ports, openPorts, connectionState, reconnectTimers>>
  /\ UNCHANGED <<worker, hostVars, govVars, wireVars>>

\* the tab is focused, waitForTabLoadWithStatus settles (load or timeout),
\* the extra wait is over and chrome.tabs.get answered
LoadPage(k, ok) ==
  /\ task[k].pc = "load"
  /\ IF ok
     THEN /\ task' = [task EXCEPT ![k].pc = "extract"]
          /\ UNCHANGED <<isProcessing, posted>>
     ELSE catch(k, TRUE)
  /\ UNCHANGED <<enabled, nativePort, ports, openPorts, connectionState, reconnectTimers>>
  /\ UNCHANGED <<worker, hostVars, govVars, wireVars>>

\* getPageContent settles; with content, sendToNativeHost starts on the
\* success RESULT: it returns false when nativePort is null, else it awaits
\* sanitizeNativeMessage
ExtractContent(k, ok) ==
  /\ task[k].pc = "extract"
  /\ IF ok
     THEN /\ task' = [task EXCEPT ![k].pc =
                        IF nativePort # 0 THEN "send" ELSE "remove"]
          /\ UNCHANGED <<isProcessing, posted>>
     ELSE catch(k, TRUE)
  /\ UNCHANGED <<enabled, nativePort, ports, openPorts, connectionState, reconnectTimers>>
  /\ UNCHANGED <<worker, hostVars, govVars, wireVars>>

\* sanitizeNativeMessage settles and nativePort.postMessage is called; a
\* throw of either, or nativePort being null by now, lands in the catch block
SendResult(k, ok) ==
  /\ task[k].pc = "send"
  /\ IF ok /\ nativePort # 0
     THEN /\ posted' = postMessage(posted, "RESULT", k, TRUE, "", "")
          /\ task' = [task EXCEPT ![k].pc = "remove"]
          /\ UNCHANGED isProcessing
     ELSE catch(k, TRUE)
  /\ UNCHANGED <<enabled, nativePort, ports, openPorts, connectionState, reconnectTimers>>
  /\ UNCHANGED <<worker, hostVars, govVars, wireVars>>

\* variant of RemoveTab: a throw of chrome.tabs.remove is not swallowed and
\* ends the finally block
RemoveTab_uncaught(k) ==
  /\ task[k].pc = "remove"
  /\ \/ finally(k, posted)
     \/ /\ task' = [task EXCEPT ![k].pc = "done"]
        /\ UNCHANGED <<isProcessing, posted>>
  /\ UNCHANGED <<enabled, nativePort, ports, openPorts, connectionState, reconnectTimers>>
  /\ UNCHANGED <<worker, hostVars, govVars, wireVars>>

\* await chrome.tabs.remove settles (a throw is swallowed), rest of finally
RemoveTab(k) ==
  /\ task[k].pc = "remove"
  /\ finally(k, posted)
  /\ UNCHANGED <<enabled, nativePort, ports, openPorts, connectionState, reconnectTimers>>
  /\ UNCHANGED <<worker, hostVars, govVars, wireVars>>

\* the onDisconnect listener of port p: the host went away
OnDisconnect(p) ==
  /\ p \in openPorts
  /\ openPorts' = openPorts \ {p}
  /\ nativePort' = 0
  /\ connectionState' = "disconnected"
  /\ reconnectTimers' = IF enabled THEN reconnectTimers + 1 ELSE reconnectTimers
  /\ UNCHANGED <<enabled, ports, isProcessing, task, posted>>
  /\ UNCHANGED <<worker, hostVars, govVars, wireVars>>

\* variant of connectToNativeHost: nativePort is not looked at
connectToNativeHost_noGuard(ok) ==
  IF ok
  THEN /\ nativePort' = ports + 1
       /\ ports' = ports + 1
       /\ openPorts' = openPorts \cup {ports + 1}
       /\ connectionState' = "connected"
  ELSE /\ connectionState' = "disconnected"
       /\ UNCHANGED <<nativePort, ports, openPorts>>

\* connectToNativeHost; ok: chrome.runtime.connectNative did not throw
connectToNativeHost(ok) ==
  IF nativePort # 0 THEN UNCHANGED <<nativePort, ports, openPorts, connectionState>>
  ELSE IF ok
  THEN /\ nativePort' = ports + 1
       /\ ports' = ports + 1
       /\ openPorts' = openPorts \cup {ports + 1}
       /\ connectionState' = "connected"
  ELSE /\ connectionState' = "disconnected"
       /\ UNCHANGED <<nativePort, ports, openPorts>>

\* a timer armed by onDisconnect or by RECONNECT fires
ReconnectTimer(ok) ==
  /\ reconnectTimers > 0
  /\ ports < MaxPorts
  /\ reconnectTimers' = reconnectTimers - 1
  /\ connectToNativeHost(ok)
  /\ UNCHANGED <<enabled, isProcessing, task, posted>>
  /\ UNCHANGED <<worker, hostVars, govVars, wireVars>>

\* the extension after START, with the SCRAPE commands of the host
PeerInit == HostInit({"secret"}) /\ ExtensionInit(TRUE)

PeerNext ==
  \/ \E k \in Scrapes, hasUrl \in BOOLEAN : ReceiveScrape(k, hasUrl)
  \/ \E k \in Scrapes, ok \in BOOLEAN : CreateTab(k, ok)
  \/ \E k \in Scrapes, ok \in BOOLEAN : LoadPage(k, ok)
  \/ \E k \in Scrapes, ok \in BOOLEAN : ExtractContent(k, ok)
  \/ \E k \in Scrapes, ok \in BOOLEAN : SendResult(k, ok)
  \/ \E k \in Scrapes : RemoveTab(k)
  \/ \E p \in openPorts : OnDisconnect(p)
  \/ \E ok \in BOOLEAN : ReconnectTimer(ok)

PeerSpec == PeerInit /\ [][PeerNext]_vars

\* every await of handleScrapeCommand settles: the chrome calls answer, the
\* load wait and the selector waits have timeouts
PeerFairness ==
  \A k \in Scrapes :
    /\ WF_vars(\E ok \in BOOLEAN : CreateTab(k, ok))
    /\ WF_vars(\E ok \in BOOLEAN : LoadPage(k, ok))
    /\ WF_vars(\E ok \in BOOLEAN : ExtractContent(k, ok))
    /\ WF_vars(\E ok \in BOOLEAN : SendResult(k, ok))
    /\ WF_vars(RemoveTab(k))

PeerLiveSpec == PeerInit /\ [][PeerNext]_vars /\ PeerFairness

\* --------------------------------------------------------------- ConnSpec
\* the popup's START, STOP and RECONNECT on top of the extension's tasks
MaxTimers == 2

\* disconnectFromNativeHost
disconnectFromNativeHost ==
  /\ openPorts' = IF nativePort # 0 THEN openPorts \ {nativePort} ELSE openPorts
  /\ nativePort' = 0
  /\ connectionState' = "disconnected"

\* onMessage START
Start(ok) ==
  /\ nativePort # 0 \/ ports < MaxPorts
  /\ enabled' = TRUE
  /\ connectToNativeHost(ok)
  /\ UNCHANGED <<reconnectTimers, isProcessing, task, posted>>
  /\ UNCHANGED <<worker, hostVars, govVars, wireVars>>

\* onMessage STOP
Stop ==
  /\ enabled' = FALSE
  /\ disconnectFromNativeHost
  /\ UNCHANGED <<ports, reconnectTimers, isProcessing, task, posted>>
  /\ UNCHANGED <<worker, hostVars, govVars, wireVars>>

\* onMessage RECONNECT: with config.enabled, disconnect and connect again
\* 100 ms later
Reconnect ==
  /\ reconnectTimers < MaxTimers
  /\ IF enabled
     THEN /\ disconnectFromNativeHost
          /\ reconnectTimers' = reconnectTimers + 1
     ELSE UNCHANGED <<nativePort, openPorts, connectionState, reconnectTimers>>
  /\ UNCHANGED <<enabled, ports, isProcessing, task, posted>>
  /\ UNCHANGED <<worker, hostVars, govVars, wireVars>>

\* the extension as installed: config.enabled false, no port
ConnInit == HostInit({"secret"}) /\ ExtensionInit(FALSE)

ConnNext ==
  \/ \E ok \in BOOLEAN : Start(ok)
  \/ Stop
  \/ Reconnect
  \/ \E p \in openPorts : OnDisconnect(p)
  \/ \E ok \in BOOLEAN : ReconnectTimer(ok)
  \/ \E k \in Scrapes, hasUrl \in BOOLEAN : ReceiveScrape(k, hasUrl)
  \/ \E k \in Scrapes, ok \in BOOLEAN : CreateTab(k, ok)
  \/ \E k \in Scrapes, ok \in BOOLEAN : LoadPage(k, ok)
  \/ \E k \in Scrapes, ok \in BOOLEAN : ExtractContent(k, ok)
  \/ \E k \in Scrapes, ok \in BOOLEAN : SendResult(k, ok)
  \/ \E k \in Scrapes : RemoveTab(k)

ConnSpec == ConnInit /\ [][ConnNext]_vars

\* ----------------------------------------------------------------- WsSpec
\* the WebSocket extension: connect, disconnect and the reconnect policy
\* variant of scheduleReconnect: the number of attempts is not limited
scheduleReconnect_noLimit(w) ==
  IF w.reconnectTimer # 0 THEN w
  ELSE [w EXCEPT !.reconnectAttempts = @ + 1,
                 !.reconnectTimer =
                    IF reconnectInterval * (w.reconnectAttempts + 1) <= 30000
                    THEN reconnectInterval * (w.reconnectAttempts + 1) ELSE 30000,
                 !.timers = @ + 1]

\* scheduleReconnect
scheduleReconnect(w) ==
  IF w.reconnectTimer # 0 THEN w
  ELSE IF w.reconnectAttempts >= maxReconnectAttempts
  THEN [w EXCEPT !.enabled = FALSE]
  ELSE [w EXCEPT !.reconnectAttempts = @ + 1,
                 !.reconnectTimer =
                    IF reconnectInterval * (w.reconnectAttempts + 1) <= 30000
                    THEN reconnectInterval * (w.reconnectAttempts + 1) ELSE 30000,
                 !.timers = @ + 1]

\* connect; ok: new WebSocket(config.serverUrl) did not throw
connect(w, ok) ==
  IF w.ws # 0 /\ w.sockets[w.ws] \in {"connecting", "open"} THEN w
  ELSE IF ok
  THEN LET id == CHOOSE i \in SocketIds :
                    /\ w.sockets[i] = "none"
                    /\ \A j \in 1..(i - 1) : w.sockets[j] # "none"
       IN [w EXCEPT !.connectionState = "connecting",
                    !.ws = id,
                    !.sockets[id] = "connecting"]
  ELSE LET failed == [w EXCEPT !.connectionState = "disconnected"]
       IN IF w.enabled THEN scheduleReconnect(failed) ELSE failed

\* disconnect: the pending timer is cleared, the socket is closed
disconnect(w) ==
  [w EXCEPT !.timers = IF w.reconnectTimer # 0 THEN @ - 1 ELSE @,
            !.reconnectTimer = 0,
            !.sockets = IF w.ws # 0 THEN [@ EXCEPT ![w.ws] = "closing"] ELSE @,
            !.ws = 0,
            !.connectionState = "disconnected"]

\* onMessage START
WsStart(ok) ==
  /\ \E i \in SocketIds : worker.sockets[i] = "none"
  /\ worker' = connect([worker EXCEPT !.enabled = TRUE], ok)
  /\ UNCHANGED <<hostVars, govVars, wireVars, peerVars>>

\* onMessage STOP
WsStop ==
  /\ worker' = disconnect([worker EXCEPT !.enabled = FALSE])
  /\ UNCHANGED <<hostVars, govVars, wireVars, peerVars>>

\* onMessage RECONNECT
WsReconnect(ok) ==
  /\ \E i \in SocketIds : worker.sockets[i] = "none"
  /\ worker' = IF worker.enabled
               THEN connect([disconnect(worker) EXCEPT !.reconnectAttempts = 0], ok)
               ELSE worker
  /\ UNCHANGED <<hostVars, govVars, wireVars, peerVars>>

\* ws.onopen of socket id
onopen(id) ==
  /\ worker.sockets[id] = "connecting"
  /\ worker' = [worker EXCEPT !.sockets[id] = "open",
                              !.reconnectAttempts = 0,
                              !.connectionState = "connected"]
  /\ UNCHANGED <<hostVars, govVars, wireVars, peerVars>>

\* ws.onclose of socket id: the connection failed, the server or the network
\* closed it, or close() of disconnect is through
onclose(id) ==
  /\ worker.sockets[id] # "none"
  /\ LET closed == [worker EXCEPT !.sockets[id] = "none",
                                  !.ws = 0,
                                  !.connectionState = "disconnected"]
     IN worker' = IF worker.enabled THEN scheduleReconnect(closed) ELSE closed
  /\ UNCHANGED <<hostVars, govVars, wireVars, peerVars>>

\* the callback of the timer armed by scheduleReconnect
ReconnectTimeout(ok) ==
  /\ worker.timers > 0
  /\ \E i \in SocketIds : worker.sockets[i] = "none"
  /\ LET fired == [worker EXCEPT !.timers = @ - 1, !.reconnectTimer = 0]
     IN worker' = IF worker.enabled THEN connect(fired, ok) ELSE fired
  /\ UNCHANGED <<hostVars, govVars, wireVars, peerVars>>

WsNext ==
  \/ \E ok \in BOOLEAN : WsStart(ok)
  \/ WsStop
  \/ \E ok \in BOOLEAN : WsReconnect(ok)
  \/ \E id \in SocketIds : onopen(id)
  \/ \E id \in SocketIds : onclose(id)
  \/ \E ok \in BOOLEAN : ReconnectTimeout(ok)

WsSpec == Init /\ [][WsNext]_vars

\* --------------------------------------------------------------- GateSpec
\* the HTTP gateway under every kind of request, with and without a
\* configured token
MaxGateRequests == 2

GateInit == HostInit({"", "secret"}) /\ ExtensionInit(FALSE)

GateNext ==
  \/ \E r \in 1..MaxGateRequests, h \in AuthHeaders :
        PostScrape(r, h, Body("object", <<Run("a", 1)>>), NoTimeout)
  \/ \E r \in 1..MaxGateRequests, b \in Bodies, t \in TimeoutOptions :
        PostScrape(r, Bearer("secret"), b, t)
  \/ \E r \in 1..MaxGateRequests, h \in AuthHeaders : GetHealth(r, h)
  \/ \E r \in Requests : TimerFire(r)

GateSpec == GateInit /\ [][GateNext]_vars

\* ------------------------------------------------------------- HealthSpec
\* /health asked while scrape requests are registered, resolved by RESULTs
\* (plain, compressed, failed) and expired
MaxHealthRequests == 2

HealthFrames ==
  {PeerFrame(m) : m \in UNION {{ResultPlain(t), ResultGz(t), ResultFail(t)} :
                                 t \in 1..MaxHealthRequests}}

HealthNext ==
  \/ \E r \in 1..MaxHealthRequests :
        PostScrape(r, Bearer("secret"), Body("object", <<Run("a", 1)>>), NoTimeout)
  \/ \E r \in 1..MaxHealthRequests : GetHealth(r, Bearer("secret"))
  \/ \E r \in Requests : TimerFire(r)
  \/ \E f \in HealthFrames : PeerWrite(f)
  \/ ReadLength
  \/ ReadBody
  \/ \E j \in decomp : DecompressDone(j)

HealthSpec == Init /\ [][HealthNext]_vars

\* ------------------------------------------------------------ InboundSpec
\* the read loop under frames whose body is JSON but not a well-formed
\* RESULT: other types, values that are no objects, RESULTs with missing or
\* wrongly typed fields
MaxInboundRequests == 1

\* a message that is no RESULT: STATUS (which may carry a taskId), PONG, a
\* type the host does not know, and a JSON value without a type (a number)
Other(type, taskId) == Msg(type, taskId, FALSE, Undefined, NoCompressed, "", "", 0)
OtherTypes == {"STATUS", "PONG", "HELLO", ""}

\* RESULTs with a missing taskId, a missing html, an html_compressed that is
\* no base64 of a gzip stream, and an html_compressed whose compression tag
\* is missing or names another encoding
MalformedResults(t) ==
  {[ResultPlain(t) EXCEPT !.taskId = 0],
   [ResultPlain(t) EXCEPT !.html = Undefined],
   ResultCorrupt(t),
   [ResultGz(t) EXCEPT !.compression = ""],
   [ResultGz(t) EXCEPT !.compression = "gzip"]}

InboundFrames ==
  {PeerFrame(Other(type, 0)) : type \in OtherTypes}
  \cup {PeerFrame(Other("STATUS", t)) : t \in 1..MaxInboundRequests}
  \cup {Frame("JSON", 4, 4, JSONstringify(JsonNull))}
  \cup {PeerFrame(m) : m \in UNION {MalformedResults(t) \cup {ResultPlain(t)} :
                                     t \in 1..MaxInboundRequests}}

InboundNext ==
  \/ \E r \in 1..MaxInboundRequests :
        PostScrape(r, Bearer("secret"), Body("object", <<Run("a", 1)>>), NoTimeout)
  \/ \E r \in Requests : TimerFire(r)
  \/ \E f \in InboundFrames : PeerWrite(f)
  \/ ReadLength
  \/ ReadBody
  \/ \E j \in decomp : DecompressDone(j)

InboundSpec == Init /\ [][InboundNext]_vars

\* ---------------------------------------------------------- CollisionSpec
\* requests under every outcome of generateTaskId, a repeated id included
MaxCollisionRequests == 2

CollisionFrames ==
  {PeerFrame(m) : m \in UNION {{ResultPlain(t), ResultFail(t)} :
                                 t \in 1..MaxCollisionRequests}}

CollisionNext ==
  \/ \E r \in 1..MaxCollisionRequests, taskId \in generateTaskId :
        PostScrapeWith(r, Bearer("secret"), Body("object", <<Run("a", 1)>>),
                       NoTimeout, {taskId})
  \/ \E r \in Requests : TimerFire(r)
  \/ \E f \in CollisionFrames : PeerWrite(f)
  \/ ReadLength
  \/ ReadBody

CollisionSpec == Init /\ [][CollisionNext]_vars

\* ------------------------------------------------------------- ResultSpec
\* the answers to accepted scrape requests, for every outcome the peer reports
MaxResultRequests == 1

\* RESULTs as handleScrapeCommand builds them
GateResults(t) ==
  {ResultPlain(t),
   [ResultPlain(t) EXCEPT !.final_url = Undefined],
   [ResultPlain(t) EXCEPT !.html = <<Run("EUR", 2)>>, !.status_code = 404],
   [ResultPlain(t) EXCEPT !.html = <<>>],
   ResultFail(t),
   [ResultFail(t) EXCEPT !.status_code = 404],
   [ResultFail(t) EXCEPT !.error = ""]}

GatePeerFrames ==
  {PeerFrame(m) : m \in UNION {GateResults(t) : t \in 1..MaxResultRequests}}

ResultNext ==
  \/ \E r \in 1..MaxResultRequests, u \in Urls :
        PostScrape(r, Bearer("secret"), Body("object", u), NoTimeout)
  \/ \E r \in Requests : TimerFire(r)
  \/ \E f \in GatePeerFrames : PeerWrite(f)
  \/ ReadLength
  \/ ReadBody

ResultSpec == Init /\ [][ResultNext]_vars

\* -------------------------------------------------------------- FrameSpec
\* sendMessage and readMessage end to end: a caller writes commands with
\* sendMessage into a pipe whose bytes arrive in chunks, and reads them back
\* with readMessage
MaxFrames == 2

FrameUrls == {<<Run("a", 1)>>, <<Run("EUR", 1)>>, <<Run("a", MAX_MESSAGE_BYTES)>>}
FrameCommands(t) ==
  {ScrapeCommand(t, u, o) : u \in FrameUrls, o \in {NoTimeout, 50}}

\* the frame the two chunks of a sendMessage call put on the pipe
Piped(chunks) == Frame("JSON", chunks[1].value, chunks[2].len, chunks[2].text)

\* a caller of sendMessage whose stdout is the pipe readMessage reads from
WriteCommand(message) ==
  /\ alive
  /\ Len(written) < MaxFrames
  /\ written' = Append(written, message)
  /\ stdout' = stdout \o sendMessage(message)
  /\ stdin' = Append(stdin, Piped(sendMessage(message)))
  /\ inflight' = inflight + StreamBytes(<<Piped(sendMessage(message))>>)
  /\ UNCHANGED received
  /\ UNCHANGED <<worker, peerVars, govVars, urlOf, req>>
  /\ UNCHANGED <<AUTH_TOKEN, activeReads, alive, serverOpen, taskIdOf, timeoutOf,
                 pendingRequests, timers, resolveCalls, removeCount, response,
                 rpos, pcRead, messageLength, remaining, stdinEnded,
                 decomp, desync, lastFrame>>

\* the offsets, from the start of the first frame of the pipe, at which a
\* chunk may end: inside and at the end of each header, inside and at the
\* end of each body, and around the first 64 KiB of a body
RECURSIVE Cuts(_, _)
Cuts(frames, at) ==
  IF frames = <<>> THEN {}
  ELSE LET f == Head(frames)
           body == at + HEADER_BYTES
       IN {at + 1, at + 3, body, body + 1, body + f.len - 1, body + f.len}
          \cup (IF f.len > DISCARD_CHUNK_BYTES
                THEN {body + DISCARD_CHUNK_BYTES, body + DISCARD_CHUNK_BYTES + 1}
                ELSE {})
          \cup Cuts(Tail(frames), body + f.len)

\* the pipe delivers bytes up to offset cut
Deliver(cut) ==
  /\ alive
  /\ cut > StreamBytes(stdin) - inflight
  /\ cut <= StreamBytes(stdin)
  /\ inflight' = StreamBytes(stdin) - cut
  /\ UNCHANGED <<received, written>>
  /\ UNCHANGED <<worker, peerVars, govVars, hostVars>>

\* readMessage / readBody settling the promise of a caller that keeps the
\* messages and calls readMessage again; a rejection other than 'Message too
\* large' ends the caller's loop
ReadMessageSettles ==
  /\ alive /\ pcRead = "body"
  /\ Available >= messageLength
  /\ Consume(messageLength)
  /\ LET read == readBody(Head(stdin), messageLength)
     IN IF read.ok
        THEN /\ received' = Append(received, read.message)
             /\ pcRead' = "length"
             /\ lastFrame' = "handled"
        ELSE /\ pcRead' = "stopped"
             /\ lastFrame' = "bad json"
             /\ UNCHANGED received
  /\ messageLength' = 0
  /\ activeReads' = IF pcRead' = "length"
                    THEN (activeReads - 1) + 1 ELSE activeReads - 1
  /\ UNCHANGED <<inflight, written>>
  /\ UNCHANGED <<worker, peerVars, govVars, urlOf, req>>
  /\ UNCHANGED <<AUTH_TOKEN, alive, serverOpen, taskIdOf, timeoutOf,
                 pendingRequests, timers, resolveCalls, removeCount, response,
                 stdout, remaining, stdinEnded, decomp, desync>>

FrameNext ==
  \/ \E m \in FrameCommands(Len(written) + 1) : WriteCommand(m)
  \/ \E cut \in Cuts(stdin, 0) : Deliver(cut)
  \/ ReadLength
  \/ DiscardChunk
  \/ ReadMessageSettles

FrameSpec == Init /\ [][FrameNext]_vars

\* ================================================================= claims
Registered(r) == taskIdOf[r] # 0
Answered(r) == response[r].status # 0
DistinctTaskIds ==
  \A r, q \in Requests : (r # q /\ Registered(r)) => taskIdOf[r] # taskIdOf[q]

\* C1: while the host process keeps running, every scrape request that
\* registered a pending entry is eventually answered with HTTP 200 or 500,
\* whatever the peer sends or fails to send.
C1_EveryRequestAnswered ==
  \A r \in Requests :
    Registered(r) ~> (response[r].status \in {200, 500} \/ ~alive)

\* a request answered by its expiry timer while the loop had stopped reading
C1_Witness ==
  \E r \in Requests :
    /\ Registered(r) /\ response[r].error = "Request timeout"
    /\ response[r].status = 500 /\ alive

\* C2: with distinct taskIds, under every interleaving of timer, RESULT,
\* duplicate RESULT and decompression, a request's resolve handle is called
\* at most once and its entry is removed exactly once.
C2_ResolveAtMostOnce ==
  DistinctTaskIds =>
    \A r \in Requests :
      /\ resolveCalls[r] <= 1
      /\ removeCount[r] <= 1
      /\ resolveCalls[r] = 1 => removeCount[r] = 1
      /\ Registered(r) => (removeCount[r] = 0 <=> pendingRequests[taskIdOf[r]] = r)
      /\ Registered(r) => (removeCount[r] = 0 <=> r \in timers)

\* a request resolved after an asynchronous decompression, with a further
\* RESULT for the same taskId waiting on stdin
C2_Witness ==
  /\ DistinctTaskIds
  /\ \E r \in Requests :
       /\ response[r].status = 200 /\ response[r].html = <<Run("a", 1), Run("EUR", 1)>>
       /\ resolveCalls[r] = 1 /\ removeCount[r] = 1
       /\ stdin # <<>> /\ JSONparse(Head(stdin).text).type = "RESULT"
       /\ JSONparse(Head(stdin).text).taskId = taskIdOf[r]

\* C3: when stdin reaches end-of-file, every registered request is resolved
\* (answered with a channel-closed error), none is left unanswered.
C3_PendingResolvedOnClose ==
  stdinEnded => \A r \in Requests : Registered(r) => Answered(r)

\* C4: after an in-limit frame whose body is not valid JSON the read loop
\* keeps running, so later frames are still read and routed.
C4_LoopSurvivesBadJson ==
  lastFrame = "bad json" => pcRead # "stopped"

\* C5: an oversized frame is consumed exactly, in reads of at most 64 KiB,
\* then rejected; the loop continues at the next frame boundary and the
\* oversized frame changes no pending entry.
C5_OversizeDrained ==
  /\ [](~desync)
  /\ [](pcRead = "length" => rpos = 0)
  /\ [](pcRead = "discard" =>
          /\ Head(stdin).kind = "OVERSIZE"
          /\ rpos = HEADER_BYTES + messageLength - remaining)
  /\ [][(pcRead = "discard" /\ remaining' # remaining) =>
          /\ remaining - remaining' > 0
          /\ remaining - remaining' <= DISCARD_CHUNK_BYTES
          /\ UNCHANGED <<pendingRequests, timers, resolveCalls, removeCount,
                         response, decomp, stdout>>
          /\ remaining' = 0 =>
               (pcRead' = "length" /\ rpos' = 0 /\ lastFrame' = "too large")]_vars

\* after an oversized frame was rejected, the header of the next frame has
\* been read and announces that frame's length
C5_Witness ==
  /\ lastFrame = "too large" /\ pcRead = "body" /\ ~desync
  /\ Head(stdin).kind = "JSON" /\ messageLength = Head(stdin).len
  /\ rpos = HEADER_BYTES

\* --------------------------------------------------------------- governor
Posted == gpc \in {"posted", "delivered"}

\* the tier a sanitized command went through, read off its tags
Tier(m) ==
  IF m.compression = "gzip+base64" THEN "compress"
  ELSE IF m.truncated THEN "truncate" ELSE "pass"

\* p is a prefix of s
IsPrefix(p, s) ==
  \/ p = <<>>
  \/ /\ Len(p) <= Len(s)
     /\ \A i \in 1..(Len(p) - 1) : p[i] = s[i]
     /\ p[Len(p)].c = s[Len(p)].c
     /\ p[Len(p)].n <= s[Len(p)].n

HasReplacementChar(s) == \E i \in 1..Len(s) : s[i].c = "FFFD"

\* the command with an empty html, the truncation flags and the marker
MetadataWithMarker(m) ==
  [m EXCEPT !.html = HTML_TRUNCATION_SUFFIX, !.truncated = TRUE,
            !.original_html_bytes = utf8ByteLength(m.html)]

\* C6: a command with a string html that is over the ceiling, and whose
\* metadata with an empty html fits under it (here even with the truncation
\* flags and the marker), is sanitized to at most MAX_NATIVE_MESSAGE_BYTES
\* serialized bytes, whichever tier is chosen.
C6_SanitizedFitsCeiling ==
  (/\ Posted
   /\ gin.html # Undefined
   /\ SerializedBytes(gin) > MAX_NATIVE_MESSAGE_BYTES
   /\ SerializedBytes(MetadataWithMarker(gin)) <= MAX_NATIVE_MESSAGE_BYTES)
  => SerializedBytes(gout) <= MAX_NATIVE_MESSAGE_BYTES

\* C7: the tier chosen is the first of pass-through, compression,
\* truncation that applies: pass-through exactly when the command fits,
\* compression exactly when it does not and the compressed command fits,
\* truncation exactly when neither fits or compression threw.
C7_FirstFittingTier ==
  (Posted /\ gin.html # Undefined) =>
    LET rawFits == SerializedBytes(gin) <= MAX_NATIVE_MESSAGE_BYTES
        compressedBytes ==
          SerializedBytes([gin EXCEPT !.html = Undefined]) + 19 + 2 + ggz.b64len
          + 28 + 23 + Digits(utf8ByteLength(gin.html))
        compressedFits == ~ggz.threw /\ compressedBytes <= MAX_NATIVE_MESSAGE_BYTES
    IN /\ Tier(gout) = "pass" <=> rawFits
       /\ Tier(gout) = "compress" <=> (~rawFits /\ compressedFits)
       /\ Tier(gout) = "truncate" <=> (~rawFits /\ ~compressedFits)
       /\ rawFits => gout = gin

\* a command truncated because its compressed form was still over the ceiling
C7_Witness ==
  /\ gpc = "posted" /\ gin.html # Undefined
  /\ Tier(gout) = "truncate" /\ ~ggz.threw
  /\ gout.html # <<>>

\* C8: truncateStringByBytes never splits a code point: its result is a
\* prefix of the input, holds no replacement character and has at most
\* maxBytes bytes.
C8_TruncationOnBoundary ==
  gpc = "truncated" =>
    /\ IsPrefix(gout.html, gin.html)
    /\ ~HasReplacementChar(gout.html)
    /\ utf8ByteLength(gout.html) <= tmax

C10_TruncatedIsPrefix ==
  (gpc = "delivered" /\ Tier(gout) = "truncate") =>
    IsPrefix(gres.html, gin.html)

\* s ends with suffix
EndsWith(s, suffix) ==
  /\ Len(s) >= Len(suffix)
  /\ SubSeq(s, Len(s) - Len(suffix) + 1, Len(s)) = suffix

\* C11: whenever the truncation tier is applied, the html the host receives
\* ends with the truncation marker and has strictly fewer UTF-8 bytes than
\* the original html.
C11_TruncatedShorterWithMarker ==
  (gpc = "delivered" /\ Tier(gout) = "truncate") =>
    /\ EndsWith(gres.html, HTML_TRUNCATION_SUFFIX)
    /\ utf8ByteLength(gres.html) < utf8ByteLength(gin.html)

\* ---------------------------------------------------------------- gateway
\* C12: when the expiry timer of a registered request fires (no RESULT with
\* its taskId was handled before), the request is answered HTTP 500 with
\* error 'Request timeout', status_code 0, content_size 0 and final_url equal
\* to the requested url, and its taskId is absent from pendingRequests from
\* then on.
C12_TimeoutResolves ==
  /\ [][\A r \in Requests :
          (r \in timers /\ r \notin timers' /\ pcRead' = pcRead) =>
            /\ response'[r].status = 500
            /\ response'[r].error = "Request timeout"
            /\ response'[r].status_code = 0
            /\ response'[r].content_size = 0
            /\ response'[r].final_url = urlOf[r]
            /\ pendingRequests'[taskIdOf[r]] = 0]_vars
  /\ [](\A r \in Requests :
          response[r].error = "Request timeout" =>
            (r \notin timers /\ pendingRequests[taskIdOf[r]] # r))

\* a request answered by its timer, with the RESULT for its taskId arriving
\* too late
C12_Witness ==
  \E r \in Requests :
    /\ response[r].status = 500 /\ response[r].error = "Request timeout"
    /\ response[r].final_url = urlOf[r] /\ Truthy(urlOf[r])
    /\ pendingRequests[taskIdOf[r]] = 0 /\ removeCount[r] = 1
    /\ stdin # <<>> /\ JSONparse(Head(stdin).text).taskId = taskIdOf[r]
    /\ pcRead = "body"

\* the read loop hands a RESULT without a pending entry to the handler
DropsResult ==
  /\ pcRead = "body" /\ pcRead' # "body"
  /\ Head(stdin).kind = "JSON"
  /\ JSONparse(Head(stdin).text).type = "RESULT"
  /\ pendingRequests[JSONparse(Head(stdin).text).taskId] = 0

\* C13: a RESULT whose taskId has no pending entry (never issued, already
\* resolved, already expired) leaves pendingRequests and every timer
\* unchanged and completes no HTTP request; it is only logged.
C13_UnknownResultDropped ==
  [][DropsResult =>
       /\ UNCHANGED <<pendingRequests, timers, response, resolveCalls,
                      removeCount, decomp, stdout>>
       /\ pcRead' = "length"
       /\ lastFrame' = "no pending"]_vars

\* a second RESULT for an answered request was dropped while another request
\* was waiting with its timer armed
C13_Witness ==
  /\ lastFrame = "no pending"
  /\ \E r, q \in Requests :
       /\ r # q
       /\ response[r].status = 200 /\ resolveCalls[r] = 1
       /\ q \in timers /\ pendingRequests[taskIdOf[q]] = q
       /\ response[q].status = 0

\* C14: a success RESULT tagged gzip+base64 whose html_compressed cannot be
\* decoded and gunzipped still resolves its request, with HTTP 500 and the
\* error 'Decompression failed', distinct from the peer's and the timeout's;
\* the entry is gone and the read loop is not affected.
C14_DecompressionFailureResolved ==
  [][\A j \in decomp :
       (j \notin decomp' /\ j.message.html_compressed.tag = "corrupt") =>
         /\ response'[j.owner].status = 500
         /\ response'[j.owner].error = "Decompression failed"
         /\ response'[j.owner].error \notin {"Request timeout", j.message.error}
         /\ response'[j.owner].status_code = 0
         /\ response'[j.owner].content_size = 0
         /\ pendingRequests'[j.message.taskId] # j.owner
         /\ j.owner \notin timers'
         /\ alive' /\ UNCHANGED <<pcRead, stdin, rpos, lastFrame>>]_vars

\* a request answered with the decompression error while the loop is reading
\* the next frame
C14_Witness ==
  \E r \in Requests :
    /\ response[r].status = 500 /\ response[r].error = "Decompression failed"
    /\ pendingRequests[taskIdOf[r]] = 0 /\ r \notin timers
    /\ alive /\ pcRead = "body" /\ decomp = {}

\* the read loop hands a RESULT for a pending taskId to the handler
HandsResult ==
  /\ pcRead = "body" /\ pcRead' # "body"
  /\ Head(stdin).kind = "JSON"
  /\ JSONparse(Head(stdin).text).type = "RESULT"
  /\ pendingRequests[JSONparse(Head(stdin).text).taskId] # 0

\* C15: every failed scrape, a RESULT with success false for a pending
\* taskId whatever its error and status_code, or a timeout, is answered HTTP
\* 500 with an error string, status_code 0 and content_size 0.
C15_FailureShape ==
  /\ [][(HandsResult /\ ~JSONparse(Head(stdin).text).success) =>
          LET r == pendingRequests[JSONparse(Head(stdin).text).taskId]
          IN /\ response'[r].status = 500
             /\ response'[r].error # ""
             /\ response'[r].status_code = 0
             /\ response'[r].content_size = 0]_vars
  /\ [](\A r \in Requests :
          response[r].error = "Request timeout" =>
            /\ response[r].status = 500
            /\ response[r].status_code = 0 /\ response[r].content_size = 0)

\* C16: a RESULT with success true and an uncompressed html string for a
\* pending taskId is answered HTTP 200 with that html, the RESULT's
\* status_code, content_size the length of the html and final_url the
\* RESULT's final_url, or its url when it has none.
C16_SuccessShape ==
  [][(/\ HandsResult
      /\ JSONparse(Head(stdin).text).success
      /\ JSONparse(Head(stdin).text).html # Undefined
      /\ JSONparse(Head(stdin).text).html_compressed.tag = "undefined") =>
       LET m == JSONparse(Head(stdin).text)
           r == pendingRequests[m.taskId]
       IN /\ response'[r].status = 200
          /\ response'[r].html = m.html
          /\ response'[r].status_code = m.status_code
          /\ response'[r].content_size = JsLength(m.html)
          /\ response'[r].final_url =
               (IF m.final_url \in {Undefined, <<>>} THEN m.url ELSE m.final_url)]_vars

\* a page of two three-byte characters answered with content_size 2 and the
\* page's own status code
C16_Witness ==
  \E r \in Requests :
    /\ response[r].status = 200 /\ response[r].html = <<Run("EUR", 2)>>
    /\ response[r].content_size = 2 /\ response[r].status_code = 404
    /\ response[r].final_url = PeerFinalUrl
    /\ pendingRequests[taskIdOf[r]] = 0 /\ lastFrame = "handled"

\* the scrape requests that have written a SCRAPE frame
Framed == {r \in Requests : taskIdOf[r] # 0}

\* C17: a POST /scrape that passes the token check and whose body is not
\* parsable JSON or has no url is answered HTTP 400 with no round trip: no
\* taskId, no pending entry, no timer, no SCRAPE frame.
C17_BadBodyFailsFast ==
  \A r \in Requests :
    (/\ req[r].route = "scrape"
     /\ AUTH_TOKEN = "" \/ req[r].authHeader = Bearer(AUTH_TOKEN)
     /\ \/ req[r].body.kind \in {"unparsable", "null"}
        \/ req[r].body.url \in {Undefined, <<>>}) =>
      /\ response[r].status = 400
      /\ taskIdOf[r] = 0
      /\ r \notin timers
      /\ \A t \in TaskIds : pendingRequests[t] # r
      /\ Len(stdout) = 2 * Cardinality(Framed)

\* C18: with a token configured, a request to /scrape or /health whose
\* Authorization header is missing, does not start with 'Bearer ' or holds
\* another token is answered 401 and leaves no pending entry and no SCRAPE
\* frame; with no token configured every request passes the middleware.
C18_TokenCheck ==
  \A r \in Requests :
    req[r].route # "none" =>
      LET h == req[r].authHeader
          rejected == \/ h = NoHeader
                      \/ h[1] # "Bearer"
                      \/ h[2] # AUTH_TOKEN
      IN /\ (AUTH_TOKEN # "" /\ rejected) =>
               /\ response[r].status = 401
               /\ taskIdOf[r] = 0 /\ r \notin timers
               /\ \A t \in TaskIds : pendingRequests[t] # r
               /\ Len(stdout) = 2 * Cardinality(Framed)
         /\ AUTH_TOKEN = "" => response[r].status # 401
         /\ (AUTH_TOKEN = "" /\ req[r].route = "health") => response[r].status = 200

\* a /health request carrying another token is refused while a token is
\* configured
C18_Witness ==
  /\ AUTH_TOKEN = "secret"
  /\ \E r \in Requests :
       /\ req[r].route = "health" /\ req[r].authHeader = Bearer("wrong")
       /\ response[r].status = 401 /\ response[r].error = "Invalid token"
       /\ stdout = <<>>

\* ----------------------------------------------------------------- framing
\* C19: whatever the interleaving of the scrape handlers, stdout is a
\* concatenation of whole frames: each 4-byte length is directly followed by
\* its own body of exactly that many bytes, one frame per accepted request.
C19_WholeFrames ==
  /\ Len(stdout) = 2 * Cardinality(Framed)
  /\ \A i \in 1..Len(stdout) :
       IF i % 2 = 1
       THEN /\ stdout[i].kind = "header" /\ stdout[i].len = HEADER_BYTES
            /\ stdout[i + 1].kind = "body"
            /\ stdout[i].value = stdout[i + 1].len
            /\ stdout[i].value =
                 ScrapeBytes([url |-> decode(stdout[i + 1].text.url),
                              timeout |-> stdout[i + 1].text.timeout])
       ELSE /\ stdout[i].kind = "body"
            /\ \E r \in Framed :
                 /\ stdout[i].text.taskId = taskIdOf[r]
                 /\ decode(stdout[i].text.url) = urlOf[r]
  /\ \A r \in Framed :
       Cardinality({i \in 1..Len(stdout) :
          stdout[i].kind = "body" /\ stdout[i].text.taskId = taskIdOf[r]}) = 1

\* two requests waiting at the same time, their two frames on stdout, each
\* with a multi-byte url
C19_Witness ==
  /\ Len(stdout) = 4
  /\ \E r, q \in Requests :
       /\ r # q /\ r \in timers /\ q \in timers
       /\ stdout[2].text.taskId = taskIdOf[r]
       /\ stdout[4].text.taskId = taskIdOf[q]
       /\ utf8ByteLength(urlOf[r]) > JsLength(urlOf[r])
  /\ stdout[1].value = stdout[2].len /\ stdout[3].value = stdout[4].len

\* the pipe is drained and readMessage waits for the next header
Drained == stdin = <<>> /\ inflight = 0 /\ pcRead = "length"

\* s is an initial segment of t
IsInitialSegment(s, t) == Len(s) <= Len(t) /\ s = SubSeq(t, 1, Len(s))

InLimit(message) == JsonBytes(message) <= MAX_MESSAGE_BYTES

\* C20 as stated: for any command, the bytes of sendMessage fed to
\* readMessage in any chunking yield an equal command, and a sequence of
\* frames is read back in the order written.
C20_RoundTrip ==
  /\ IsInitialSegment(received, written)
  /\ Drained => received = written

\* C20, amended: the same for the commands whose JSON text has at most
\* MAX_MESSAGE_BYTES bytes; a longer frame is drained and rejected, and the
\* frames after it are read back unharmed.
C20_RoundTripInLimit ==
  /\ IsInitialSegment(received, SelectSeq(written, InLimit))
  /\ Drained => received = SelectSeq(written, InLimit)
  /\ ~desync /\ pcRead # "stopped"

\* one command was read back, and the body of the next frame, with a
\* multi-byte url, has arrived only in part
C20_Witness ==
  /\ Len(written) = 2 /\ Len(received) = 1 /\ received[1] = written[1]
  /\ pcRead = "body" /\ Available > 0 /\ Available < messageLength
  /\ written[2].url = <<Run("EUR", 1)>> /\ written[1].url # written[2].url
  /\ messageLength = JsonBytes(written[2])

\* ------------------------------------------------- governor, other tiers
\* C21: a command whose serialized size is at most the ceiling comes out of
\* sanitizeNativeMessage unchanged: no key added, removed or altered.
C21_PassThroughUnchanged ==
  (Posted /\ SerializedBytes(gin) <= MAX_NATIVE_MESSAGE_BYTES) => gout = gin

\* a command without html whose serialized size is exactly the ceiling
C21_Witness ==
  /\ gpc = "posted"
  /\ SerializedBytes(gin) = MAX_NATIVE_MESSAGE_BYTES
  /\ gin.html = Undefined /\ gout = gin

\* C22: a command over the ceiling that has no string html comes out as a
\* failure command, success false with the too-large error, whose own
\* serialized size is at most the ceiling.
C22_NoHtmlFailureFits ==
  (/\ Posted
   /\ SerializedBytes(gin) > MAX_NATIVE_MESSAGE_BYTES
   /\ gin.html = Undefined)
  => /\ gout.success = FALSE
     /\ gout.error = "Message too large"
     /\ SerializedBytes(gout) <= MAX_NATIVE_MESSAGE_BYTES

\* ------------------------------------------------------ timers and entries
\* C23: the expiry timer of a scrape request is armed with options.timeout
\* for every value that is provided, and with DEFAULT_TIMEOUT only when
\* options.timeout is absent.
C23_TimerArmedWithOption ==
  \A r \in Requests :
    Registered(r) =>
      timeoutOf[r] = IF req[r].timeout = NoTimeout
                     THEN DEFAULT_TIMEOUT ELSE req[r].timeout

\* the scrape requests whose entry is in pendingRequests
Pending == {r \in Requests : \E t \in TaskIds : pendingRequests[t] = r}

\* C24: the pending value GET /health returns is the number of entries of
\* pendingRequests; every entry belongs to a scrape request of its own that
\* has not been answered; the value is never negative and is 0 once every
\* request was resolved by a RESULT or a timeout.
C24_HealthCountsPending ==
  /\ [](/\ \A t \in TaskIds :
            pendingRequests[t] # 0 =>
              /\ taskIdOf[pendingRequests[t]] = t
              /\ req[pendingRequests[t]].route = "scrape"
              /\ ~Answered(pendingRequests[t])
        /\ Cardinality({t \in TaskIds : pendingRequests[t] # 0})
             = Cardinality(Pending)
        /\ (\A r \in Requests : Registered(r) => Answered(r)) => Pending = {})
  /\ [][\A r \in Requests :
          (req[r] = NoRequest /\ req'[r].route = "health") =>
            /\ response'[r].status = 200
            /\ response'[r].pending = Cardinality(Pending)
            /\ response'[r].pending >= 0
            /\ Pending' = Pending]_vars

\* /health answered 1 while a scrape request waits
C24_Witness ==
  \E r, q \in Requests :
    /\ req[q].route = "health" /\ response[q].pending = 1
    /\ req[r].route = "scrape" /\ Registered(r) /\ ~Answered(r)
    /\ Pending = {r}

Running == {k \in Scrapes : task[k].pc \notin {"none", "done"}}

\* C26: the extension runs at most one rendering task at a time: at most
\* one handleScrapeCommand invocation is past the isProcessing guard, and a
\* SCRAPE (with a url) received while isProcessing is true is answered at
\* once with RESULT success false 'Already processing another task', opens
\* no tab and leaves isProcessing and the running task as they are.
C26_OneTaskAtATime ==
  /\ [](Cardinality(Running) <= 1 /\ (Running # {} => isProcessing))
  /\ [][\A k \in Scrapes :
          (/\ task[k].pc = "none" /\ task'[k].pc # "none"
           /\ task'[k].hasUrl /\ isProcessing) =>
            /\ posted' = Append(posted,
                  PortMessage(nativePort, "RESULT", k, FALSE,
                              "Already processing another task", ""))
            /\ task'[k].pc = "done" /\ ~task'[k].tab
            /\ isProcessing'
            /\ \A j \in Scrapes \ {k} : task'[j] = task[j]]_vars

\* the first task has its tab open and the second SCRAPE got the busy answer
C26_Witness ==
  /\ task[1].pc = "load" /\ task[1].tab /\ isProcessing
  /\ task[2].pc = "done" /\ task[2].hasUrl /\ ~task[2].tab
  /\ \E i \in 1..Len(posted) :
       /\ posted[i].type = "RESULT" /\ posted[i].taskId = 2
       /\ posted[i].error = "Already processing another task"

\* the positions in posted of the RESULTs that carry taskId k
ResultsOf(k) ==
  {i \in 1..Len(posted) : posted[i].type = "RESULT" /\ posted[i].taskId = k}

\* C27: for every SCRAPE the extension receives, exactly one RESULT with its
\* taskId is eventually posted as long as the native port stays connected
\* (never more than one, and only for taskIds that were received), and that
\* RESULT has success false whenever a step of the task threw or timed out.
C27_OneResultPerScrape ==
  /\ [](/\ \A k \in Scrapes :
            /\ Cardinality(ResultsOf(k)) <= 1
            /\ ResultsOf(k) # {} => task[k].pc # "none"
            /\ task[k].threw => \A i \in ResultsOf(k) : ~posted[i].success
        /\ \A i \in 1..Len(posted) :
             posted[i].type = "RESULT" => posted[i].taskId \in Scrapes)
  /\ \A k \in Scrapes :
       (task[k].pc # "none") ~> (ResultsOf(k) # {} \/ nativePort # task[k].port)

\* the first task threw with its tab open and its failure RESULT went out on
\* the port its command came in on; the second task, on the same port, posted
\* a success RESULT
C27_Witness ==
  /\ task[1].threw /\ task[1].pc = "done" /\ nativePort = task[1].port
  /\ \E i \in ResultsOf(1) : ~posted[i].success /\ posted[i].port = task[1].port
  /\ task[2].pc = "done" /\ task[2].port = nativePort
  /\ \E i \in ResultsOf(2) : posted[i].success

\* ------------------------------------------------------- read loop, again
\* C28: whenever the read loop has ended, by end-of-file on stdin or by a
\* read error that breaks it, the HTTP listener is closed.
C28_ListenerClosedWithLoop ==
  (stdinEnded \/ pcRead = "stopped") => ~serverOpen

\* the step is readMessage resolving with a message (the body of a JSON
\* frame was read in full)
ReadsMessage ==
  /\ pcRead = "body" /\ pcRead' # "body"
  /\ readBody(Head(stdin), messageLength).ok

\* C29: a malformed inbound result never brings the bridge down: handling a
\* frame whose body is JSON, whatever the value, does not end the process or
\* the read loop, and later frames are still processed.
C29_MalformedNeverCrashes ==
  [][ReadsMessage => (alive' /\ serverOpen' = serverOpen /\ pcRead' = "length")]_vars

\* the message the step hands to handleExtensionMessage
MessageRead == readBody(Head(stdin), messageLength).message

\* C30: handling an inbound STATUS, PONG or unknown-type message leaves
\* pendingRequests and all expiry timers unchanged, completes no HTTP
\* request, writes nothing to stdout, and the read loop goes on with the
\* next frame.
C30_OtherMessagesIgnored ==
  [][(ReadsMessage /\ MessageRead.type \in OtherTypes) =>
       /\ UNCHANGED <<pendingRequests, timers, response, resolveCalls,
                      removeCount, decomp, stdout>>
       /\ alive' /\ serverOpen' = serverOpen
       /\ pcRead' = "length"]_vars

\* a message of another type went through no branch while a request waits
\* with its timer armed; the loop has read the header of the next frame,
\* the RESULT of that request
C30_Witness ==
  /\ lastFrame = "ignored"
  /\ Registered(1) /\ ~Answered(1) /\ 1 \in timers
  /\ pendingRequests[taskIdOf[1]] = 1
  /\ Len(stdout) = 2
  /\ pcRead = "body" /\ stdin = <<PeerFrame(ResultPlain(taskIdOf[1]))>>

\* C31: each in-flight scrape request owns its own pending entry: the
\* taskIds of requests that are pending at the same time differ, so the entry
\* under the taskId of a request whose timer is armed is the entry of that
\* request (no registration overwrote it, no other timer removed it).
C31_OwnPendingEntry ==
  \A r \in Requests :
     (Registered(r) /\ r \in timers) =>
        /\ pendingRequests[taskIdOf[r]] = r
        /\ \A q \in Requests \ {r} :
              (Registered(q) /\ q \in timers) => taskIdOf[q] # taskIdOf[r]

\* C32: at most one readMessage call is active at any time, and exactly one
\* while the read loop is inside a frame: main starts the next read only
\* when the previous one has settled, also while a gunzip of an earlier
\* RESULT is running and after an oversized frame was rejected.
C32_OneReadAtATime ==
  /\ activeReads \in {0, 1}
  /\ (alive /\ pcRead \in {"body", "discard"}) => activeReads = 1
  /\ (alive /\ lastFrame = "bad json") => activeReads = 0

\* a read is inside the body of a frame while the gunzip of an earlier
\* RESULT is still running
C32_Witness ==
  /\ decomp # {}
  /\ pcRead = "body"
  /\ activeReads = 1

\* C33: a success RESULT that carries html_compressed is never answered
\* with an HTTP 200 that lacks the page html: whatever its compression tag,
\* the request is answered with the restored html or with an error (or its
\* gunzip is running, and then ends in one of the two).
C33_CompressedNeverLost ==
  /\ [][(/\ ReadsMessage
          /\ MessageRead.type = "RESULT" /\ MessageRead.success
          /\ MessageRead.html_compressed.tag # "undefined"
          /\ pendingRequests_get(MessageRead.taskId) # 0) =>
         LET r == pendingRequests_get(MessageRead.taskId)
         IN \/ response'[r].status = 500
            \/ response'[r].status = 200 /\ Truthy(response'[r].html)
            \/ response'[r].status = 0 /\ \E j \in decomp' : j.owner = r]_vars
  /\ [][\A j \in decomp \ decomp' :
          \/ response'[j.owner].status = 500
          \/ /\ response'[j.owner].status = 200
             /\ response'[j.owner].html = decode(j.message.html_compressed.bytes)]_vars

\* C34: a SCRAPE is answered 'Already processing another task' only while
\* the RESULT of an earlier task has not been posted yet: a SCRAPE with a
\* url received when every earlier task has posted its RESULT is accepted
\* and executed.
C34_BusyOnlyUntilResult ==
  [][\A k \in Scrapes :
       (/\ task[k].pc = "none" /\ task'[k].pc # "none" /\ task'[k].hasUrl
        /\ \A j \in Scrapes \ {k} : task[j].pc # "none" => ResultsOf(j) # {}) =>
          /\ task'[k].pc = "create"
          /\ isProcessing'
          /\ ResultsOf(k)' = {}]_vars

\* C35: after every accepted task isProcessing returns to false, whether
\* the task succeeds, throws, fails to send its RESULT or loses the native
\* port on the way: the extension is busy exactly while a task is between
\* the guard and the end of its finally block, and every such task gets
\* there.
C35_BusyEnds ==
  /\ [](isProcessing <=> Running # {})
  /\ \A k \in Scrapes : (k \in Running) ~> ~isProcessing

\* the port went away in the middle of the first task, which threw with its
\* tab open and could not send its failure RESULT; the extension is free
\* again
C35_Witness ==
  /\ task[1].pc = "done" /\ task[1].threw /\ ~task[1].tab
  /\ nativePort = 0 /\ ResultsOf(1) = {}
  /\ ~isProcessing

\* C36: while config.enabled is false, from STOP until the next START, no
\* connection to the native host is established: nativePort is null and
\* connectionState is 'disconnected', however STOP is ordered with an
\* earlier host disconnect or RECONNECT.
C36_NoConnectionWhileDisabled ==
  ~enabled => (nativePort = 0 /\ openPorts = {} /\ connectionState = "disconnected")

\* C37: after every handler has run to completion, stats.connectionState is
\* 'connected' exactly when nativePort is non-null, and at most one native
\* port is open at a time, the one nativePort holds.
C37_StateMatchesPort ==
  /\ connectionState = "connected" <=> nativePort # 0
  /\ connectionState \in {"connected", "disconnected"}
  /\ Cardinality(openPorts) <= 1
  /\ openPorts = {nativePort} \ {0}

\* the second port is connected after the first one was closed, with a
\* reconnect timer still pending
C37_Witness ==
  /\ nativePort = 2 /\ openPorts = {2} /\ connectionState = "connected"
  /\ reconnectTimers > 0

\* the step arms the reconnect timer / delivers the open event of a socket /
\* is a call of scheduleReconnect with the attempts used up
ArmsTimer == worker.reconnectTimer = 0 /\ worker'.reconnectTimer # 0
Opens ==
  \E id \in SocketIds :
     worker.sockets[id] = "connecting" /\ worker'.sockets[id] = "open"
LimitReached ==
  /\ worker.enabled /\ worker.reconnectAttempts = maxReconnectAttempts
  /\ worker.reconnectTimer = 0
  /\ \E id \in SocketIds :
        worker.sockets[id] # "none" /\ worker'.sockets[id] = "none"

\* C38: in the reconnect policy of the WebSocket extension reconnectAttempts
\* never exceeds config.maxReconnectAttempts; attempt k is armed with the
\* delay min(reconnectInterval * k, 30000); at most one reconnect timer is
\* pending at a time, the one reconnectTimer holds; reconnectAttempts is 0
\* after a connection opened; and when a connection closes with the attempts
\* used up, config.enabled becomes false and no timer is armed, nor is one
\* armed while config.enabled is false.
C38_ReconnectPolicy ==
  /\ [](/\ worker.reconnectAttempts \in 0..maxReconnectAttempts
        /\ worker.timers \in {0, 1}
        /\ worker.timers = 1 <=> worker.reconnectTimer # 0)
  /\ [][ArmsTimer =>
         /\ worker'.reconnectAttempts \in 1..maxReconnectAttempts
         /\ worker'.reconnectTimer \in
               {reconnectInterval * worker'.reconnectAttempts, 30000}
         /\ worker'.reconnectTimer <= reconnectInterval * worker'.reconnectAttempts
         /\ worker'.reconnectTimer <= 30000
         /\ worker'.enabled]_vars
  /\ [][Opens => worker'.reconnectAttempts = 0]_vars
  /\ [][LimitReached =>
         /\ ~worker'.enabled
         /\ worker'.reconnectTimer = 0 /\ worker'.timers = 0
         /\ worker'.reconnectAttempts = maxReconnectAttempts]_vars

\* ten attempts failed one after the other and the close of the last one
\* switched the extension off
C38_Witness ==
  /\ worker.reconnectAttempts = maxReconnectAttempts
  /\ ~worker.enabled
  /\ worker.reconnectTimer = 0 /\ worker.timers = 0
  /\ worker.ws = 0 /\ \A id \in SocketIds : worker.sockets[id] = "none"

====
